---------------------------- MODULE Spec2Model ----------------------------
(***************************************************************************)
(* Model of toggl-track-mcp's outbound client layer:                       *)
(*   - TokenBucketRateLimiter (toggl_track_mcp/rate_limiter.py)            *)
(*   - TogglAPIClient._make_request (toggl_track_mcp/toggl_client.py)      *)
(*                                                                         *)
(* Arithmetic is exact fixed point.  Time is counted in ticks, tokens in   *)
(* units of 1/One token, and the refill rate in token units per tick, so   *)
(* the limiter's real requests_per_second is                               *)
(*     requests_per_second * TicksPerSecond / One.                         *)
(* Rates are divisors of One, which keeps every token count a multiple of  *)
(* the rate and every wait_time a whole number of ticks.                   *)
(***************************************************************************)
EXTENDS Integers, Sequences, FiniteSets, TLC

\* ---------------------------------------------------------------- bounds
\* token units per token (the fixed-point denominator of `tokens`)
One == 4
\* ticks per second (the fixed-point denominator of time)
TicksPerSecond == 2
\* largest burst_size a limiter is constructed with
MaxBurst == 2
\* number of concurrent tasks sharing the limiter
NumTasks == 2
\* the clock stops advancing at MaxTime ticks
MaxTime == 5
\* acquire() calls made on one limiter in the limiter specification
MaxAcquires == 5

\* largest `retries` argument passed to _make_request
MaxRetries == 3
\* time entries have a duration in -MaxDuration..MaxDuration seconds, or none
MaxDuration == 3
\* format_duration is applied to 0..MaxSeconds
MaxSeconds == 7325
\* the tags argument of create_time_entry has at most MaxTagsLen characters
MaxTagsLen == 4
\* acquire() calls another task makes while the request sleeps
MaxOtherAcquires == 1

\* longest key of the inbound bearer check
MaxKeyLen == 2

\* most entries get_time_entries returns to list_time_entries and
\* get_time_summary
MaxEntries == 2

\* ------------------------------------------------------ program constants
\* retries: int = 3
DefaultRetries == 3

Tasks == 1..NumTasks

\* requests_per_second values, in token units per tick
Rates == {d \in 1..One : One % d = 0}

Min(a, b) == IF a <= b THEN a ELSE b

VARIABLES
    \* ---- TokenBucketRateLimiter fields
    requests_per_second,   \* token units per tick
    burst_size,            \* whole tokens
    tokens,                \* token units
    last_update,           \* tick of the last refill
    lock,                  \* asyncio.Lock: the set holding the owner, {} if free
    waiters,               \* asyncio.Lock's FIFO of tasks blocked on the lock
    \* ---- the clock and the tasks' positions inside acquire()
    now,                   \* time.time(), in ticks since construction
    pc,                    \* task -> "idle" | "blocked" | "sleep"
    wake,                  \* task -> tick at which its asyncio.sleep ends
    \* ---- history of the limiter
    log,                   \* one record per acquire() that passed the refill
    grants,                \* tick at which each acquire() returned, in order
    \* ---- one task's _make_request call
    rpc,                   \* "idle" | "acquire" | "loop" | "sleep" | "returned" | "raised"
    retries,               \* the call's retries argument
    attempt,               \* the loop variable of `for attempt in range(retries + 1)`
    received,              \* what each HTTP attempt of the call got, in order
    sleeps,                \* seconds passed to each asyncio.sleep of the call
    acquires,              \* rate_limiter.acquire() calls made by the call
    outcome,               \* what the call returned or raised
    \* ---- the client and one accessor call on it
    client_workspace_id,   \* self.workspace_id: None or Some(id)
    acc,                   \* the accessor called, "none" before the call
    arg,                   \* its workspace_id argument: None or Some(id)
    apc,                   \* "idle" | "user" | "resource" | "returned" | "raised"
    paths,                 \* the endpoint of each _make_request call it made
    executed,              \* how each of those _make_request calls ended
    aresult,               \* what the accessor returned or raised
    \* ---- one calculate_duration call
    time_entry,            \* the TogglTimeEntry passed in
    duration_result,       \* None before the call, then Some(result)
    \* ---- server.py: module state and one tool invocation
    toggl_client,          \* None, or Some("TogglAPIClient") when a token is set
    TOGGL_WRITE_ENABLED,   \* the write flag read from the environment
    tool,                  \* the tool invoked, "none" before the invocation
    tags,                  \* its tags argument: None or Some(text)
    tpc,                   \* "idle" | "client" | "returned" | "raised"
    pending,               \* client methods the tool has still to call
    client_calls,          \* the client methods it called, with the tags passed
    client_outcomes,       \* how each of those calls ended
    tresult,               \* the dict the tool returned, or what it raised
    \* ---- probes: format_duration, get_available_tokens, a second task
    seconds,               \* the argument of format_duration
    formatted,             \* None before the call, then Some(text)
    available,             \* None, then Some(get_available_tokens())
    sleep_grants,          \* acquire() calls of other tasks that returned
                           \* while the request slept
    \* ---- the Reports API methods
    posts,                 \* the POST requests sent to the Reports API
    \* ---- authenticate_request
    PYTEST_CURRENT_TEST,   \* the environment variable: None or Some(text)
    MCP_API_KEY,           \* the configured key: None or Some(text)
    request,               \* None, or Some of the request's path and header
    response,              \* what authenticate_request returned or raised
    forwarded,             \* the requests passed to call_next
    \* ---- list_time_entries and get_time_summary on fetched data
    entries,               \* what get_time_entries returned
    projects,              \* what get_projects returned
    clients,               \* what get_clients returned
    filters,               \* the tool's filter arguments
    report                 \* the dict the tool returned

requestVars == <<rpc, retries, attempt, received, sleeps, acquires, outcome>>

limiterVars == <<requests_per_second, burst_size, tokens, last_update, lock,
                 waiters, now, pc, wake, log, grants>>

clientVars == <<client_workspace_id, acc, arg, apc, paths, executed, aresult,
                time_entry, duration_result>>

serverVars == <<toggl_client, TOGGL_WRITE_ENABLED, tool, tags, tpc, pending,
                client_calls, client_outcomes, tresult>>

probeVars == <<seconds, formatted, available, sleep_grants>>

handlerVars == <<posts, PYTEST_CURRENT_TEST, MCP_API_KEY, request, response,
                 forwarded, entries, projects, clients, filters, report>>

vars == <<requests_per_second, burst_size, tokens, last_update, lock,
          waiters, now, pc, wake, log, grants,
          rpc, retries, attempt, received, sleeps, acquires, outcome,
          client_workspace_id, acc, arg, apc, paths, executed, aresult,
          time_entry, duration_result,
          toggl_client, TOGGL_WRITE_ENABLED, tool, tags, tpc, pending,
          client_calls, client_outcomes, tresult,
          seconds, formatted, available, sleep_grants,
          posts, PYTEST_CURRENT_TEST, MCP_API_KEY, request, response,
          forwarded, entries, projects, clients, filters, report>>

\* ------------------------------------------------- TokenBucketRateLimiter

\* variant: the bucket starts one token short of burst_size
LimiterInitShort ==
    /\ requests_per_second \in Rates
    /\ burst_size \in 1..MaxBurst
    /\ tokens = (burst_size - 1) * One
    /\ last_update = 0
    /\ lock = {}
    /\ waiters = <<>>
    /\ now = 0
    /\ pc = [t \in Tasks |-> "idle"]
    /\ wake = [t \in Tasks |-> 0]
    /\ log = <<>>
    /\ grants = <<>>

\* __init__: a full bucket, stamped with the construction time
LimiterInit ==
    /\ requests_per_second \in Rates
    /\ burst_size \in 1..MaxBurst
    /\ tokens = burst_size * One
    /\ last_update = 0
    /\ lock = {}
    /\ waiters = <<>>
    /\ now = 0
    /\ pc = [t \in Tasks |-> "idle"]
    /\ wake = [t \in Tasks |-> 0]
    /\ log = <<>>
    /\ grants = <<>>

\* variant: the refill is not capped at burst_size
RefillUncapped(tk, lu, t) == tk + (t - lu) * requests_per_second

\* min(burst_size, tokens + time_passed * requests_per_second)
Refill(tk, lu, t) ==
    Min(burst_size * One, tk + (t - lu) * requests_per_second)

\* variant: a full 1 / requests_per_second whatever the bucket holds
WaitTimeFullTick(tk) == One \div requests_per_second

\* wait_time = (1.0 - tokens) / requests_per_second, in ticks
WaitTime(tk) == (One - tk) \div requests_per_second

\* get_available_tokens(): the refill formula, read only
GetAvailableTokens == Refill(tokens, last_update, now)

\* The body of acquire() under the lock, up to its return or its sleep.
AcquireBody(t) ==
    LET refilled == Refill(tokens, last_update, now) IN
    /\ last_update' = now
    /\ IF refilled >= One
       THEN /\ tokens' = refilled - One
            /\ lock' = {}
            /\ pc' = [pc EXCEPT ![t] = "idle"]
            /\ wake' = wake
            /\ log' = Append(log, [at |-> now, tok |-> refilled,
                                   slept |-> FALSE, wait |-> 0])
            /\ grants' = Append(grants, now)
       ELSE /\ tokens' = refilled
            /\ lock' = {t}
            /\ pc' = [pc EXCEPT ![t] = "sleep"]
            /\ wake' = [wake EXCEPT ![t] = now + WaitTime(refilled)]
            /\ log' = Append(log, [at |-> now, tok |-> refilled,
                                   slept |-> TRUE,
                                   wait |-> WaitTime(refilled)])
            /\ grants' = grants

\* variant: acquire() without `async with self._lock`
AcquireEnterUnlocked(t) ==
    /\ pc[t] = "idle"
    /\ AcquireBody(t)
    /\ waiters' = waiters

\* acquire() called by task t: it takes the lock at once when the lock is
\* free and nobody queues for it, otherwise it queues behind the waiters.
AcquireEnter(t) ==
    /\ pc[t] = "idle"
    /\ IF lock = {} /\ waiters = <<>>
       THEN /\ AcquireBody(t)
            /\ waiters' = waiters
       ELSE /\ pc' = [pc EXCEPT ![t] = "blocked"]
            /\ waiters' = Append(waiters, t)
            /\ UNCHANGED <<tokens, last_update, lock, wake, log, grants>>

\* the released lock goes to the first waiter, which then runs the body
AcquireLocked(t) ==
    /\ pc[t] = "blocked"
    /\ lock = {}
    /\ waiters # <<>>
    /\ Head(waiters) = t
    /\ waiters' = Tail(waiters)
    /\ AcquireBody(t)

\* variant: the lock is not released after the sleep
AcquireWakeKeepsLock(t) ==
    /\ pc[t] = "sleep"
    /\ tokens' = 0
    /\ lock' = lock
    /\ pc' = [pc EXCEPT ![t] = "idle"]
    /\ grants' = Append(grants, now')
    /\ UNCHANGED <<last_update, waiters, wake, log>>

\* asyncio.sleep(wait_time) is over: tokens = 0.0, the lock is released
AcquireWake(t) ==
    /\ pc[t] = "sleep"
    /\ tokens' = 0
    /\ lock' = {}
    /\ pc' = [pc EXCEPT ![t] = "idle"]
    /\ grants' = Append(grants, now')
    /\ UNCHANGED <<last_update, waiters, wake, log>>

\* ------------------------------------------- TogglAPIClient._make_request

\* Optional[...]: None is the empty sequence, a value x is <<x>>
None == <<>>
Some(x) == <<x>>

\* ---- what one HTTP attempt can get from upstream
\* A header value and a body are character sequences resp. strings; the
\* inputs below cover an absent header, an integer and a non-integer.
Digits == <<"0", "1", "2", "3", "4", "5", "6", "7", "8", "9">>

RetryAfterHeaders ==
    {None} \cup {Some(h) : h \in {<<"3">>, <<"x">>}}

\* UserBody stands for a complete /me record; its default_workspace_id is 9
UserBody == "{\"id\": 1, \"default_workspace_id\": 9, ...}"

OkBodies == {"", "{\"id\": 1}", "[{\"id\": 1}]", "<html>", "null", UserBody}

Responses ==
    {[kind |-> "response", status |-> 429, retry_after |-> h,
      body |-> "Too Many Requests"] : h \in RetryAfterHeaders}
    \cup {[kind |-> "response", status |-> 200, retry_after |-> None, body |-> b] :
        b \in OkBodies}
    \cup {[kind |-> "response", status |-> 204, retry_after |-> None, body |-> ""]}
    \cup {[kind |-> "response", status |-> st, retry_after |-> None,
           body |-> "Server Error"] : st \in {402, 410, 500}}
    \cup {[kind |-> "response", status |-> 404, retry_after |-> None, body |-> ""]}
    \cup {[kind |-> "RequestError", status |-> 0, retry_after |-> None,
           body |-> "Network error"]}

DigitValue(c) == (CHOOSE i \in 1..Len(Digits) : Digits[i] = c) - 1

IsDigit(c) == \E i \in 1..Len(Digits) : Digits[i] = c

\* int(text) succeeds on a non-empty run of decimal digits (the header
\* values above carry no sign, whitespace or underscore)
IsInt(text) == Len(text) > 0 /\ \A i \in 1..Len(text) : IsDigit(text[i])

RECURSIVE ParseInt(_)
ParseInt(text) ==
    IF Len(text) = 0 THEN 0
    ELSE 10 * ParseInt(SubSeq(text, 1, Len(text) - 1))
         + DigitValue(text[Len(text)])

\* response.headers.get("Retry-After", "2")
RetryAfterText(resp) ==
    IF resp.retry_after = None THEN <<"2">> ELSE resp.retry_after[1]

\* 2 ** attempt
RECURSIVE Pow2(_)
Pow2(n) == IF n = 0 THEN 1 ELSE 2 * Pow2(n - 1)

\* response.raise_for_status() passes for 2xx
IsSuccess(status) == status >= 200 /\ status < 300

\* response.json(): the kind of the top-level value, or a decode failure
ValidJson(body) == body \in {"{\"id\": 1}", "[{\"id\": 1}]", "null", UserBody}

Json(body) ==
    CASE body = "{\"id\": 1}" -> "object:id=1"
      [] body = "[{\"id\": 1}]" -> "list:id=1"
      [] body = "null" -> "null"
      [] body = UserBody -> "object:user"

EmptyObject == "object:"

\* ---- results of one attempt
NoOutcome == [kind |-> "none", exc |-> "", message |-> <<>>,
              status_code |-> None, value |-> ""]

Return(v) == [kind |-> "return", exc |-> "", message |-> <<>>,
              status_code |-> None, value |-> v]

Raise(e, msg, sc) == [kind |-> "raise", exc |-> e, message |-> msg,
                      status_code |-> sc, value |-> ""]

\* the step of an attempt: leave the call, or sleep and go round the loop
Leave(o) == [next |-> IF o.kind = "return" THEN "returned" ELSE "raised",
             outcome |-> o, sleep |-> None]

SleepThenLoop(secs) == [next |-> "sleep", outcome |-> NoOutcome,
                        sleep |-> Some(secs)]

\* variant: the final-attempt test never holds
RequestFailedNeverFinal(resp, a, r) ==
    IF a > r
    THEN Leave(Raise("TogglAPIError", <<"Request failed: ", resp.body>>, None))
    ELSE SleepThenLoop(Pow2(a))

\* variant: the final-attempt test is off by one
RequestFailedEarly(resp, a, r) ==
    IF a + 1 >= r
    THEN Leave(Raise("TogglAPIError", <<"Request failed: ", resp.body>>, None))
    ELSE SleepThenLoop(Pow2(a))

\* except httpx.RequestError: the last attempt raises, the others back off
RequestFailed(resp, a, r) ==
    IF a = r
    THEN Leave(Raise("TogglAPIError", <<"Request failed: ", resp.body>>, None))
    ELSE SleepThenLoop(Pow2(a))

\* variant: the Retry-After header is not read
RateLimitedFixedSleep(resp, a, r) == SleepThenLoop(2)

\* status 429: asyncio.sleep(int(Retry-After)), then `continue`
RateLimited(resp, a, r) ==
    IF IsInt(RetryAfterText(resp))
    THEN SleepThenLoop(ParseInt(RetryAfterText(resp)))
    ELSE Leave(Raise("ValueError", <<"invalid literal for int()">>, None))

\* variant: the final error carries no status_code
StatusFailedNoStatus(resp, a, r) ==
    IF a = r
    THEN Leave(Raise("TogglAPIError",
                     <<"HTTP ", ToString(resp.status), ": ", resp.body>>,
                     None))
    ELSE SleepThenLoop(Pow2(a))

\* variant: a fixed one second backoff
StatusFailedFixedBackoff(resp, a, r) ==
    IF a = r
    THEN Leave(Raise("TogglAPIError",
                     <<"HTTP ", ToString(resp.status), ": ", resp.body>>,
                     Some(resp.status)))
    ELSE SleepThenLoop(1)

\* raise_for_status() raised; except httpx.HTTPStatusError
StatusFailed(resp, a, r) ==
    IF a = r
    THEN Leave(Raise("TogglAPIError",
                     <<"HTTP ", ToString(resp.status), ": ", resp.body>>,
                     Some(resp.status)))
    ELSE SleepThenLoop(Pow2(a))

\* variant: 402 is retried like any other failed status
PaymentRequiredRetried(resp, a, r) == StatusFailed(resp, a, r)

\* status 402
PaymentRequired(resp, a, r) ==
    Leave(Raise("TogglAPIError",
                <<"Payment required - check your Toggl subscription">>,
                Some(402)))

\* status 410
Gone(resp, a, r) ==
    Leave(Raise("TogglAPIError", <<"Resource no longer available">>,
                Some(410)))

\* variant: only status 204 gives {}, an empty body goes to response.json()
SucceededOnly204(resp, a, r) ==
    IF resp.status = 204
    THEN Leave(Return(EmptyObject))
    ELSE IF ~ValidJson(resp.body)
    THEN Leave(Raise("JSONDecodeError", <<"Expecting value">>, None))
    ELSE Leave(Return(Json(resp.body)))

\* a 2xx response: {} for 204 or an empty body, else response.json()
Succeeded(resp, a, r) ==
    IF resp.status = 204 \/ resp.body = ""
    THEN Leave(Return(EmptyObject))
    ELSE IF ~ValidJson(resp.body)
    THEN Leave(Raise("JSONDecodeError", <<"Expecting value">>, None))
    ELSE Leave(Return(Json(resp.body)))

\* The body of the attempt loop for the response `resp` of attempt `a`.
HandleAttempt(resp, a, r) ==
    IF resp.kind = "RequestError" THEN RequestFailed(resp, a, r)
    ELSE IF resp.status = 429 THEN RateLimited(resp, a, r)
    ELSE IF resp.status = 402 THEN PaymentRequired(resp, a, r)
    ELSE IF resp.status = 410 THEN Gone(resp, a, r)
    ELSE IF ~IsSuccess(resp.status) THEN StatusFailed(resp, a, r)
    ELSE Succeeded(resp, a, r)

\* no _make_request has been called on the new client
RequestInit ==
    /\ rpc = "idle"
    /\ retries = 0
    /\ attempt = 0
    /\ received = <<>>
    /\ sleeps = <<>>
    /\ acquires = 0
    /\ outcome = NoOutcome

\* the task that runs the requests
Caller == 1

\* _make_request(..., retries = r) is called: rate_limiter.acquire()
MakeRequestCall(r) ==
    /\ rpc = "idle"
    /\ retries' = r
    /\ attempt' = 0
    /\ received' = <<>>
    /\ sleeps' = <<>>
    /\ outcome' = NoOutcome
    /\ acquires' = 1
    /\ AcquireEnter(Caller)
    /\ rpc' = IF pc'[Caller] = "idle" THEN "loop" ELSE "acquire"
    /\ UNCHANGED <<requests_per_second, burst_size, now>>
    /\ UNCHANGED clientVars
    /\ UNCHANGED <<serverVars, probeVars, handlerVars>>

\* the call's acquire() sleeps its wait_time out and returns
MakeRequestAcquired ==
    /\ rpc = "acquire"
    /\ now' = wake[Caller]
    /\ AcquireWake(Caller)
    /\ rpc' = "loop"
    /\ UNCHANGED <<requests_per_second, burst_size, retries, attempt,
                   received, sleeps, acquires, outcome>>
    /\ UNCHANGED clientVars
    /\ UNCHANGED <<serverVars, probeVars, handlerVars>>

\* variant: the sleep that follows a failed attempt is taken under the
\* limiter's lock
MakeRequestAttemptLocked(resp) ==
    /\ rpc = "loop"
    /\ attempt <= retries
    /\ LET step == HandleAttempt(resp, attempt, retries) IN
       /\ received' = Append(received, resp)
       /\ rpc' = step.next
       /\ outcome' = step.outcome
       /\ sleeps' = IF step.sleep = None THEN sleeps
                    ELSE Append(sleeps, step.sleep[1])
       /\ lock' = IF step.sleep = None THEN lock ELSE {Caller}
    /\ UNCHANGED <<requests_per_second, burst_size, tokens, last_update,
                   waiters, now, pc, wake, log, grants>>
    /\ UNCHANGED <<retries, attempt, acquires>>
    /\ UNCHANGED clientVars
    /\ UNCHANGED <<serverVars, probeVars, handlerVars>>

\* variant: the loop runs over range(retries + 2)
MakeRequestAttemptOneMore(resp) ==
    /\ rpc = "loop"
    /\ attempt <= retries + 1
    /\ LET step == HandleAttempt(resp, attempt, retries) IN
       /\ received' = Append(received, resp)
       /\ rpc' = step.next
       /\ outcome' = step.outcome
       /\ sleeps' = IF step.sleep = None THEN sleeps
                    ELSE Append(sleeps, step.sleep[1])
    /\ UNCHANGED <<requests_per_second, burst_size, tokens, last_update,
                   lock, waiters, now, pc, wake, log, grants>>
    /\ UNCHANGED <<retries, attempt, acquires>>
    /\ UNCHANGED clientVars
    /\ UNCHANGED <<serverVars, probeVars, handlerVars>>

\* one pass of the loop body: the HTTP request and what follows from it
MakeRequestAttempt(resp) ==
    /\ rpc = "loop"
    /\ attempt <= retries
    /\ LET step == HandleAttempt(resp, attempt, retries) IN
       /\ received' = Append(received, resp)
       /\ rpc' = step.next
       /\ outcome' = step.outcome
       /\ sleeps' = IF step.sleep = None THEN sleeps
                    ELSE Append(sleeps, step.sleep[1])
    /\ UNCHANGED <<requests_per_second, burst_size, tokens, last_update,
                   lock, waiters, now, pc, wake, log, grants>>
    /\ UNCHANGED <<retries, attempt, acquires>>
    /\ UNCHANGED clientVars
    /\ UNCHANGED <<serverVars, probeVars, handlerVars>>

\* variant: the sleep after a 429 does not use up a loop iteration
MakeRequestSleepFree ==
    /\ rpc = "sleep"
    /\ now' = now + sleeps[Len(sleeps)] * TicksPerSecond
    /\ attempt' = IF received[Len(received)].status = 429
                  THEN attempt ELSE attempt + 1
    /\ rpc' = "loop"
    /\ UNCHANGED <<requests_per_second, burst_size, tokens, last_update,
                   lock, waiters, pc, wake, log, grants>>
    /\ UNCHANGED <<retries, received, sleeps, acquires, outcome>>
    /\ UNCHANGED clientVars
    /\ UNCHANGED <<serverVars, probeVars, handlerVars>>

\* asyncio.sleep(...) is over: `continue`, or the end of the except block
MakeRequestSleep ==
    /\ rpc = "sleep"
    /\ now' = now + sleeps[Len(sleeps)] * TicksPerSecond
    /\ attempt' = attempt + 1
    /\ rpc' = "loop"
    /\ UNCHANGED <<requests_per_second, burst_size, tokens, last_update,
                   lock, waiters, pc, wake, log, grants>>
    /\ UNCHANGED <<retries, received, sleeps, acquires, outcome>>
    /\ UNCHANGED clientVars
    /\ UNCHANGED <<serverVars, probeVars, handlerVars>>

\* range(retries + 1) is used up: the statement after the loop
MakeRequestExhausted ==
    /\ rpc = "loop"
    /\ attempt > retries
    /\ rpc' = "raised"
    /\ outcome' = Raise("TogglAPIError", <<"Max retries exceeded">>, None)
    /\ UNCHANGED <<requests_per_second, burst_size, tokens, last_update,
                   lock, waiters, now, pc, wake, log, grants>>
    /\ UNCHANGED <<retries, attempt, received, sleeps, acquires>>
    /\ UNCHANGED clientVars
    /\ UNCHANGED <<serverVars, probeVars, handlerVars>>

\* An acquire() made on the client's limiter before the call, at
\* construction time and while a token is left: it returns at once.
EarlierAcquire ==
    /\ rpc = "idle"
    /\ now = 0
    /\ tokens >= One
    /\ AcquireEnter(Caller)
    /\ UNCHANGED <<requests_per_second, burst_size, now>>
    /\ UNCHANGED requestVars
    /\ UNCHANGED clientVars
    /\ UNCHANGED <<serverVars, probeVars, handlerVars>>

\* --------------------------------------------- TogglAPIClient accessors

\* __init__(..., workspace_id = ws): no accessor and no calculate_duration
\* has been called
ClientInit(ws) ==
    /\ client_workspace_id = ws
    /\ acc = "none"
    /\ arg = None
    /\ apc = "idle"
    /\ paths = <<>>
    /\ executed = <<>>
    /\ aresult = NoOutcome
    /\ time_entry = [duration |-> None]
    /\ duration_result = None

\* workspace ids are positive, so `if not workspace_id` and
\* `self.workspace_id or ...` test for None
WorkspaceIds == {7, 8}

OptionalWorkspaceIds == {None} \cup {Some(w) : w \in WorkspaceIds}

SingleAccessors == {"get_current_user", "get_time_entry", "get_current_time_entry"}

ScopedAccessors == {"get_projects", "get_clients", "get_tags"}

CollectionAccessors ==
    {"get_time_entries", "get_workspaces"} \cup ScopedAccessors

\* the endpoint an accessor passes to _make_request
Path(name, ws) ==
    [endpoint |->
        CASE name = "get_current_user" -> "/me"
          [] name = "get_current_time_entry" -> "/me/time_entries/current"
          [] name = "get_time_entries" -> "/me/time_entries"
          [] name = "get_time_entry" -> "/me/time_entries/{entry_id}"
          [] name = "get_workspaces" -> "/me/workspaces"
          [] name = "get_projects" -> "/workspaces/{workspace_id}/projects"
          [] name = "get_clients" -> "/workspaces/{workspace_id}/clients"
          [] name = "get_tags" -> "/workspaces/{workspace_id}/tags",
     workspace_id |-> ws]

\* Every way a _make_request call with the default retries can end: what
\* some attempt of the loop leaves the call with, or the loop running out.
MakeRequestOutcomes ==
    ({HandleAttempt(resp, a, DefaultRetries).outcome :
          resp \in Responses, a \in 0..DefaultRetries} \ {NoOutcome})
    \cup {Raise("TogglAPIError", <<"Max retries exceeded">>, None)}

\* isinstance(data, dict), isinstance(data, list), bool(data)
IsDict(v) == v \in {"object:", "object:id=1", "object:user"}

IsList(v) == v = "list:id=1"

Truthy(v) == v \in {"object:id=1", "object:user", "list:id=1"}

\* user.default_workspace_id of the decoded /me record
DefaultWorkspaceId(v) == IF v = "object:user" THEN 9 ELSE 0

InvalidFormat(what) ==
    Raise("TogglAPIError", <<"Invalid response format for ", what>>, None)

\* get_current_user, given how its _make_request call ended; TogglUser
\* has required fields, which only a complete record provides
GetCurrentUser(o) ==
    IF o.kind = "raise" THEN o
    ELSE IF IsDict(o.value)
    THEN IF o.value = "object:user" THEN Return("TogglUser")
         ELSE Raise("ValidationError", <<"TogglUser">>, None)
    ELSE InvalidFormat("user data")

\* variant: every TogglAPIError is turned into None
GetCurrentTimeEntrySwallowsAll(o) ==
    IF o.kind = "raise"
    THEN IF o.exc = "TogglAPIError" THEN Return("None") ELSE o
    ELSE IF Truthy(o.value) /\ IsDict(o.value) THEN Return("TogglTimeEntry")
    ELSE Return("None")

\* get_current_time_entry
GetCurrentTimeEntry(o) ==
    IF o.kind = "raise"
    THEN IF o.exc = "TogglAPIError" /\ o.status_code = Some(404)
         THEN Return("None")
         ELSE o
    ELSE IF Truthy(o.value) /\ IsDict(o.value) THEN Return("TogglTimeEntry")
    ELSE Return("None")

\* get_time_entry
GetTimeEntry(o) ==
    IF o.kind = "raise" THEN o
    ELSE IF IsDict(o.value) THEN Return("TogglTimeEntry")
    ELSE InvalidFormat("time entry")

\* get_time_entries, get_workspaces, get_projects, get_clients, get_tags
GetCollection(o, items, what) ==
    IF o.kind = "raise" THEN o
    ELSE IF IsList(o.value) THEN Return(items)
    ELSE InvalidFormat(what)

\* what accessor `name` makes of the end o of its resource request
AccessorResult(name, o) ==
    CASE name = "get_current_user" -> GetCurrentUser(o)
      [] name = "get_current_time_entry" -> GetCurrentTimeEntry(o)
      [] name = "get_time_entry" -> GetTimeEntry(o)
      [] name = "get_time_entries" ->
            GetCollection(o, "List[TogglTimeEntry]", "time entries")
      [] name = "get_workspaces" ->
            GetCollection(o, "List[TogglWorkspace]", "workspaces")
      [] name = "get_projects" ->
            GetCollection(o, "List[TogglProject]", "projects")
      [] name = "get_clients" ->
            GetCollection(o, "List[TogglClient]", "clients")
      [] name = "get_tags" -> GetCollection(o, "List[TogglTag]", "tags")

\* variant: the user's default workspace wins over the client's
ResolveWorkspaceUserFirst(cw, user_default) == user_default

\* self.workspace_id or user.default_workspace_id
ResolveWorkspace(cw, user_default) ==
    IF cw # None THEN cw[1] ELSE user_default

\* An accessor is called.  A workspace-scoped one without a workspace_id
\* argument starts with get_current_user(); every other call starts with
\* its resource request.
AccessorCall(name, a) ==
    /\ apc = "idle"
    /\ name \in ScopedAccessors \/ a = None
    /\ acc' = name
    /\ arg' = a
    /\ executed' = <<>>
    /\ aresult' = NoOutcome
    /\ IF name \in ScopedAccessors /\ a = None
       THEN /\ apc' = "user"
            /\ paths' = <<Path("get_current_user", None)>>
       ELSE /\ apc' = "resource"
            /\ paths' = <<Path(name, a)>>
    /\ UNCHANGED <<client_workspace_id, time_entry, duration_result>>
    /\ UNCHANGED limiterVars
    /\ UNCHANGED requestVars
    /\ UNCHANGED <<serverVars, probeVars, handlerVars>>

\* get_current_user() inside a scoped accessor is over: its error ends the
\* accessor, its user gives the workspace of the resource request
AccessorUserLookup(o) ==
    /\ apc = "user"
    /\ executed' = Append(executed, o)
    /\ LET user == GetCurrentUser(o) IN
       IF user.kind = "raise"
       THEN /\ apc' = "raised"
            /\ aresult' = user
            /\ paths' = paths
       ELSE /\ apc' = "resource"
            /\ aresult' = aresult
            /\ paths' = Append(paths,
                   Path(acc, Some(ResolveWorkspace(client_workspace_id,
                                      DefaultWorkspaceId(o.value)))))
    /\ UNCHANGED <<client_workspace_id, acc, arg, time_entry, duration_result>>
    /\ UNCHANGED limiterVars
    /\ UNCHANGED requestVars
    /\ UNCHANGED <<serverVars, probeVars, handlerVars>>

\* the resource request is over: decode, or fail
AccessorResource(o) ==
    /\ apc = "resource"
    /\ executed' = Append(executed, o)
    /\ aresult' = AccessorResult(acc, o)
    /\ apc' = IF aresult'.kind = "return" THEN "returned" ELSE "raised"
    /\ UNCHANGED <<client_workspace_id, acc, arg, paths, time_entry,
                   duration_result>>
    /\ UNCHANGED limiterVars
    /\ UNCHANGED requestVars
    /\ UNCHANGED <<serverVars, probeVars, handlerVars>>

\* ------------------------------------------------------------- durations

Durations == {None} \cup {Some(d) : d \in (0 - MaxDuration)..MaxDuration}

\* int(time.time()) at tick t
UnixTime(t) == t \div TicksPerSecond

\* variant: a running entry's duration is only negated
CalculateDurationNegated(entry, t) ==
    LET duration == IF entry.duration = None THEN 0 ELSE entry.duration[1] IN
    IF duration < 0 THEN 0 - duration ELSE duration

\* calculate_duration(time_entry) at tick t
CalculateDuration(entry, t) ==
    LET duration == IF entry.duration = None THEN 0 ELSE entry.duration[1] IN
    IF duration < 0 THEN UnixTime(t) + duration ELSE duration

\* calculate_duration is called on the entry
CalculateDurationCall ==
    /\ duration_result = None
    /\ duration_result' = Some(CalculateDuration(time_entry, now))
    /\ UNCHANGED <<client_workspace_id, acc, arg, apc, paths, executed,
                   aresult, time_entry>>
    /\ UNCHANGED limiterVars
    /\ UNCHANGED requestVars
    /\ UNCHANGED <<serverVars, probeVars, handlerVars>>

\* ------------------------------------------------------------ server.py

\* what a tool has when it has not ended
NoResult == [kind |-> "none", error |-> <<>>, exc |-> ""]

\* module load: toggl_client is built iff TOGGL_API_TOKEN is set, the write
\* flag is read from the environment; no tool has been invoked
ServerInit(client, write) ==
    /\ toggl_client = client
    /\ TOGGL_WRITE_ENABLED = write
    /\ tool = "none"
    /\ tags = None
    /\ tpc = "idle"
    /\ pending = <<>>
    /\ client_calls = <<>>
    /\ client_outcomes = <<>>
    /\ tresult = NoResult

\* the tools and the client methods each calls, in order
ToolPlan(name) ==
    CASE name = "get_current_user" -> <<"get_current_user">>
      [] name = "get_current_time_entry" -> <<"get_current_time_entry">>
      [] name = "list_time_entries" -> <<"get_time_entries">>
      [] name = "get_time_entry_details" -> <<"get_time_entry">>
      [] name = "list_projects" -> <<"get_projects">>
      [] name = "list_clients" -> <<"get_clients">>
      [] name = "list_workspaces" -> <<"get_workspaces">>
      [] name = "list_tags" -> <<"get_tags">>
      [] name = "search_time_entries" -> <<"get_time_entries">>
      [] name = "get_time_summary" ->
            <<"get_time_entries", "get_projects", "get_clients">>
      [] name = "get_team_time_entries" -> <<"get_team_time_entries">>
      [] name = "get_team_summary" -> <<"get_team_summary">>
      [] name = "list_workspace_users" -> <<"get_current_user", "_make_request">>
      [] name = "create_time_entry" -> <<"create_time_entry">>

ReadTools ==
    {"get_current_user", "get_current_time_entry", "list_time_entries",
     "get_time_entry_details", "list_projects", "list_clients",
     "list_workspaces", "list_tags", "search_time_entries",
     "get_time_summary", "get_team_time_entries", "get_team_summary",
     "list_workspace_users"}

Tools == ReadTools \cup {"create_time_entry"}

\* ---- the tags argument of create_time_entry
TagChars == {"a", "b", ",", " "}

TagTexts == UNION {[1..n -> TagChars] : n \in 0..MaxTagsLen}

TagInputs == {None} \cup {Some(text) : text \in TagTexts}

\* text.split(sep): the segments between the separators, at least one
RECURSIVE Split(_, _)
Split(text, sep) ==
    IF \A i \in 1..Len(text) : text[i] # sep THEN <<text>>
    ELSE LET i == CHOOSE k \in 1..Len(text) :
                      text[k] = sep /\ \A j \in 1..(k - 1) : text[j] # sep
         IN <<SubSeq(text, 1, i - 1)>>
            \o Split(SubSeq(text, i + 1, Len(text)), sep)

\* text.strip(): without its leading and trailing blanks
RECURSIVE Strip(_)
Strip(text) ==
    IF text = <<>> THEN text
    ELSE IF Head(text) = " " THEN Strip(Tail(text))
    ELSE IF text[Len(text)] = " " THEN Strip(SubSeq(text, 1, Len(text) - 1))
    ELSE text

\* variant: the tokens are not stripped
ParseTagsUnstripped(tg) ==
    IF tg = None \/ tg[1] = <<>> THEN <<>>
    ELSE SelectSeq(Split(tg[1], ","), LAMBDA tag : Strip(tag) # <<>>)

\* parsed_tags = [tag.strip() for tag in tags.split(",") if tag.strip()]
\* when tags is given and not empty, else []
ParseTags(tg) ==
    IF tg = None \/ tg[1] = <<>> THEN <<>>
    ELSE LET parts == Split(tg[1], ",")
             stripped == [i \in 1..Len(parts) |-> Strip(parts[i])]
         IN SelectSeq(stripped, LAMBDA tag : tag # <<>>)

\* variant: an empty list is passed on as it is
TagsArgumentAsIs(parsed) == Some(parsed)

\* tags=parsed_tags if parsed_tags else None
TagsArgument(parsed) == IF parsed # <<>> THEN Some(parsed) ELSE None

\* ---- how the client methods called by the tools can end
\* get_team_time_entries / get_team_summary after their user lookup: the
\* Reports API answer is decoded on status 200, is an error otherwise; a
\* transport failure is not caught in these two methods
ReportsResult(method, resp) ==
    IF resp.kind = "RequestError"
    THEN Raise("RequestError", <<resp.body>>, None)
    ELSE IF resp.status = 200
    THEN IF ~ValidJson(resp.body)
         THEN Raise("JSONDecodeError", <<"Expecting value">>, None)
         ELSE IF method = "get_team_summary" THEN Return(Json(resp.body))
         ELSE IF IsDict(Json(resp.body)) THEN Return("TogglReportsResponse")
         ELSE Raise("TypeError", <<"argument after ** must be a mapping">>, None)
    ELSE Raise("TogglAPIError",
               <<IF method = "get_team_summary"
                 THEN "Reports API summary request failed: "
                 ELSE "Reports API request failed: ",
                 ToString(resp.status), " - ", resp.body>>,
               Some(resp.status))

\* the errors of the get_current_user() lookup that precedes the request of
\* a method called without a workspace_id
UserLookupErrors ==
    {GetCurrentUser(o) : o \in MakeRequestOutcomes}
    \ {Return("TogglUser")}

\* TogglAPIClient.create_time_entry: the user lookup, then one request
\* whose object is decoded as the created entry
CreateTimeEntryOutcomes ==
    UserLookupErrors \cup {GetTimeEntry(o) : o \in MakeRequestOutcomes}

ClientOutcomes(method) ==
    CASE method = "_make_request" -> MakeRequestOutcomes
      [] method \in {"get_team_time_entries", "get_team_summary"} ->
            UserLookupErrors
            \cup {ReportsResult(method, resp) : resp \in Responses}
      [] method = "create_time_entry" -> CreateTimeEntryOutcomes
      [] method \in ScopedAccessors ->
            UserLookupErrors
            \cup {AccessorResult(method, o) : o \in MakeRequestOutcomes}
      [] OTHER -> {AccessorResult(method, o) : o \in MakeRequestOutcomes}

\* ---- the tools
\* variant: the client is handed out without the None test
GetTogglClientUnchecked == Return("TogglAPIClient")

\* _get_toggl_client()
GetTogglClient ==
    IF toggl_client = None
    THEN Raise("TogglAPIError",
               <<"TOGGL_API_TOKEN environment variable is required">>, None)
    ELSE Return("TogglAPIClient")

\* variant: create_time_entry is not gated
WriteAllowedAlways(name) == TRUE

\* `if not TOGGL_WRITE_ENABLED: return {...}` opens create_time_entry
WriteAllowed(name) == name # "create_time_entry" \/ TOGGL_WRITE_ENABLED

WriteDisabled ==
    <<"Write operations are disabled. Set TOGGL_WRITE_ENABLED=true to enable time entry creation.">>

\* {"error": text, ...}
ErrorResult(text) == [kind |-> "error", error |-> text, exc |-> ""]

\* variant: only errors that carry a status code are caught
ToolExceptStatusOnly(o) ==
    IF o.exc = "TogglAPIError" /\ o.status_code # None
    THEN [next |-> "returned", result |-> ErrorResult(o.message)]
    ELSE [next |-> "raised",
          result |-> [kind |-> "raise", error |-> o.message, exc |-> o.exc]]

\* `except TogglAPIError as e: return {"error": str(e)}`; any other
\* exception leaves the tool
ToolExcept(o) ==
    IF o.exc = "TogglAPIError"
    THEN [next |-> "returned", result |-> ErrorResult(o.message)]
    ELSE [next |-> "raised",
          result |-> [kind |-> "raise", error |-> o.message, exc |-> o.exc]]

\* the call a tool makes of a client method
ClientCall(method, tg) ==
    [method |-> method,
     tags |-> IF method = "create_time_entry"
              THEN TagsArgument(ParseTags(tg))
              ELSE None]

\* A tool is invoked: the write gate, then _get_toggl_client(), then the
\* first call of a client method.
ToolInvoke(name, tg) ==
    /\ tpc = "idle"
    /\ name = "create_time_entry" \/ tg = None
    /\ tool' = name
    /\ tags' = tg
    /\ client_outcomes' = <<>>
    /\ IF ~WriteAllowed(name)
       THEN /\ tpc' = "returned"
            /\ tresult' = ErrorResult(WriteDisabled)
            /\ pending' = <<>>
            /\ client_calls' = <<>>
       ELSE IF GetTogglClient.kind = "raise"
       THEN /\ tpc' = ToolExcept(GetTogglClient).next
            /\ tresult' = ToolExcept(GetTogglClient).result
            /\ pending' = <<>>
            /\ client_calls' = <<>>
       ELSE /\ tpc' = "client"
            /\ tresult' = NoResult
            /\ pending' = ToolPlan(name)
            /\ client_calls' = <<ClientCall(Head(ToolPlan(name)), tg)>>
    /\ UNCHANGED <<toggl_client, TOGGL_WRITE_ENABLED>>
    /\ UNCHANGED limiterVars
    /\ UNCHANGED requestVars
    /\ UNCHANGED clientVars
    /\ UNCHANGED <<probeVars, handlerVars>>

\* The client method the tool awaits ends with o: an exception goes to the
\* tool's except clause, a value lets the tool go on to its next call or
\* to its result.
ToolClientDone(o) ==
    /\ tpc = "client"
    /\ o \in ClientOutcomes(Head(pending))
    /\ client_outcomes' = Append(client_outcomes, o)
    /\ IF o.kind = "raise"
       THEN /\ tpc' = ToolExcept(o).next
            /\ tresult' = ToolExcept(o).result
            /\ pending' = <<>>
            /\ client_calls' = client_calls
       ELSE IF Len(pending) > 1
       THEN /\ tpc' = "client"
            /\ tresult' = tresult
            /\ pending' = Tail(pending)
            /\ client_calls' = Append(client_calls,
                                      ClientCall(pending[2], tags))
       ELSE /\ tpc' = "returned"
            /\ tresult' = [kind |-> "result", error |-> <<>>, exc |-> ""]
            /\ pending' = <<>>
            /\ client_calls' = client_calls
    /\ UNCHANGED <<toggl_client, TOGGL_WRITE_ENABLED, tool, tags>>
    /\ UNCHANGED limiterVars
    /\ UNCHANGED requestVars
    /\ UNCHANGED clientVars
    /\ UNCHANGED <<probeVars, handlerVars>>

\* ---------------------------------------------------------------- probes

\* nothing has been formatted or read, no other task has acquired
ProbeInit ==
    /\ seconds = 0
    /\ formatted = None
    /\ available = None
    /\ sleep_grants = 0

\* str(n) of an integer n >= 0: its decimal digits
RECURSIVE Decimal(_)
Decimal(n) ==
    IF n < 10 THEN <<Digits[n + 1]>>
    ELSE Append(Decimal(n \div 10), Digits[(n % 10) + 1])

\* variant: the minutes are not reduced modulo the hour
FormatDurationTotalMinutes(s) ==
    LET hours == s \div 3600
        minutes == s \div 60
    IN Decimal(hours) \o <<"h", " ">> \o Decimal(minutes) \o <<"m">>

\* format_duration(seconds): f"{hours}h {minutes}m"
FormatDuration(s) ==
    LET hours == s \div 3600
        minutes == (s % 3600) \div 60
    IN Decimal(hours) \o <<"h", " ">> \o Decimal(minutes) \o <<"m">>

\* format_duration is called on `seconds`
FormatDurationCall ==
    /\ formatted = None
    /\ formatted' = Some(FormatDuration(seconds))
    /\ UNCHANGED <<seconds, available, sleep_grants>>
    /\ UNCHANGED limiterVars
    /\ UNCHANGED requestVars
    /\ UNCHANGED clientVars
    /\ UNCHANGED <<serverVars, handlerVars>>

\* variant: the read refills the bucket as acquire() does
GetAvailableTokensCallRefilling ==
    /\ available' = Some(GetAvailableTokens)
    /\ tokens' = GetAvailableTokens
    /\ last_update' = now
    /\ UNCHANGED <<requests_per_second, burst_size, lock, waiters, now, pc,
                   wake, log, grants>>
    /\ UNCHANGED <<seconds, formatted, sleep_grants>>
    /\ UNCHANGED requestVars
    /\ UNCHANGED clientVars
    /\ UNCHANGED <<serverVars, handlerVars>>

\* get_available_tokens() is called, at any time and by anyone: it takes
\* no lock and does not await
GetAvailableTokensCall ==
    /\ available' = Some(GetAvailableTokens)
    /\ UNCHANGED <<seconds, formatted, sleep_grants>>
    /\ UNCHANGED limiterVars
    /\ UNCHANGED requestVars
    /\ UNCHANGED clientVars
    /\ UNCHANGED <<serverVars, handlerVars>>

\* ------------------------------------------------------------- handlers

\* authenticate_request has not run
NoResponse == [kind |-> "none", status_code |-> 0, detail |-> ""]

\* the module is loaded with the environment (pytest, key); no request yet
AuthInit(pytest, key) ==
    /\ PYTEST_CURRENT_TEST = pytest
    /\ MCP_API_KEY = key
    /\ request = None
    /\ response = NoResponse
    /\ forwarded = <<>>

\* no Reports API request has been sent, neither list_time_entries nor
\* get_time_summary has been invoked, the environment is (pytest, key)
HandlerInitWith(pytest, key) ==
    /\ posts = <<>>
    /\ AuthInit(pytest, key)
    /\ entries = <<>>
    /\ projects = <<>>
    /\ clients = <<>>
    /\ filters = None
    /\ report = NoResult

HandlerInit == HandlerInitWith(None, None)

\* ---- authenticate_request; texts are sequences of characters

\* the non-empty keys
Keys == UNION {[1..n -> {"k", "x"}] : n \in 1..MaxKeyLen}

BearerPrefix == <<"B", "e", "a", "r", "e", "r", " ">>

\* request.headers.get("Authorization"): absent, empty, or a key after
\* one of four prefixes
AuthorizationHeaders ==
    {None, Some(<<>>), Some(BearerPrefix)}
    \cup {Some(scheme \o k) :
             scheme \in {BearerPrefix,
                         <<"b", "e", "a", "r", "e", "r", " ">>,
                         <<"B", "e", "a", "r", "e", "r">>,
                         <<>>},
             k \in Keys}

McpPrefix == <<"/", "m", "c", "p">>

\* request.url.path
RequestPaths ==
    {McpPrefix,
     McpPrefix \o <<"/">>,
     McpPrefix \o <<"/", "x">>,
     McpPrefix \o <<"x">>,
     <<"/">>,
     <<"/", "m", "c">>,
     <<"/", "h", "e", "a", "l", "t", "h">>}

\* text.startswith(prefix)
StartsWith(text, prefix) ==
    /\ Len(text) >= Len(prefix)
    /\ SubSeq(text, 1, Len(prefix)) = prefix

\* return await call_next(request)
Forward == [kind |-> "forwarded", status_code |-> 0, detail |-> ""]

\* raise HTTPException(status_code=..., detail=...)
HTTPException(status, text) ==
    [kind |-> "raise", status_code |-> status, detail |-> text]

\* variant: any header with the Bearer prefix is let through
AuthenticatePrefixOnly(pytest, key, path, header) ==
    IF pytest # None /\ pytest[1] # "" THEN Forward
    ELSE IF key = None \/ key[1] = <<>> THEN Forward
    ELSE IF ~StartsWith(path, McpPrefix) THEN Forward
    ELSE IF header = None \/ header[1] = <<>>
            \/ ~StartsWith(header[1], BearerPrefix)
    THEN HTTPException(401, "Invalid authorization header")
    ELSE Forward

\* the body of authenticate_request
Authenticate(pytest, key, path, header) ==
    IF pytest # None /\ pytest[1] # "" THEN Forward
    ELSE IF key = None \/ key[1] = <<>> THEN Forward
    ELSE IF ~StartsWith(path, McpPrefix) THEN Forward
    ELSE IF header = None \/ header[1] = <<>>
            \/ ~StartsWith(header[1], BearerPrefix)
    THEN HTTPException(401, "Invalid authorization header")
    ELSE IF SubSeq(header[1], 8, Len(header[1])) # key[1]
    THEN HTTPException(401, "Invalid API key")
    ELSE Forward

\* a request arrives at the middleware
AuthenticateRequest(path, header) ==
    /\ request = None
    /\ request' = Some([path |-> path, Authorization |-> header])
    /\ response' = Authenticate(PYTEST_CURRENT_TEST, MCP_API_KEY, path, header)
    /\ forwarded' = IF response'.kind = "forwarded"
                    THEN Append(forwarded, request'[1])
                    ELSE forwarded
    /\ UNCHANGED <<PYTEST_CURRENT_TEST, MCP_API_KEY>>
    /\ UNCHANGED <<posts, entries, projects, clients, filters, report>>
    /\ UNCHANGED limiterVars
    /\ UNCHANGED requestVars
    /\ UNCHANGED clientVars
    /\ UNCHANGED <<serverVars, probeVars>>

\* ---- list_time_entries and get_time_summary on the fetched data

\* the tick at which the tool runs: two seconds after construction
InvokedAt == 2 * TicksPerSecond

\* TogglTimeEntry.duration: a stopped entry of 2 s, one running since
\* second 1 (duration = -1)
EntryDurations == {Some(0 - 1), Some(2)}

\* the entries list_time_entries is given
ListedEntries ==
    [project_id : {None, Some(1)}, billable : BOOLEAN,
     duration : EntryDurations,
     description : {<<>>, <<"A", "b">>, <<"b", "a">>}]

\* the entries get_time_summary is given
SummarizedEntries ==
    [project_id : {None, Some(1), Some(2)}, billable : BOOLEAN,
     duration : EntryDurations, description : {<<>>}]

\* the lists of at most MaxEntries records of a set
ListsOf(records) == UNION {[1..n -> records] : n \in 0..MaxEntries}

\* the filter arguments of list_time_entries
ListFilters ==
    [project_id : {None, Some(1)},
     billable : {None, Some(TRUE)},
     description_contains :
         {None, Some(<<>>), Some(<<"a">>), Some(<<"A", "B">>)}]

\* the filter arguments of get_time_summary
SummaryFilters ==
    [project_id : {None, Some(1)},
     client_id : {None, Some(1)},
     billable : {None, Some(TRUE)}]

TogglProject(i, n, c) == [id |-> i, name |-> n, client_id |-> c]

\* what get_projects returns
ProjectLists ==
    {<<>>,
     <<TogglProject(1, Some("Alpha"), Some(1))>>,
     <<TogglProject(1, Some("Alpha"), Some(1)),
       TogglProject(2, Some("Beta"), None)>>,
     <<TogglProject(1, Some("Alpha"), Some(1)),
       TogglProject(2, Some("Alpha"), Some(2))>>,
     <<TogglProject(1, None, Some(2)),
       TogglProject(2, Some("No Project"), Some(1))>>}

\* what get_clients returns
ClientLists ==
    {<<>>,
     <<[id |-> 1, name |-> Some("Acme")]>>,
     <<[id |-> 1, name |-> Some("Acme")], [id |-> 2, name |-> None]>>}

\* str.lower() on the letters in use
LowerChar(c) ==
    CASE c = "A" -> "a"
      [] c = "B" -> "b"
      [] OTHER -> c

Lower(text) == [i \in 1..Len(text) |-> LowerChar(text[i])]

\* needle in text
Contains(text, needle) ==
    \E i \in 0..(Len(text) - Len(needle)) :
        SubSeq(text, i + 1, i + Len(needle)) = needle

\* variant: the description is searched as it is written
PassesListFiltersCaseSensitive(entry, f) ==
    /\ ~(f.project_id # None /\ entry.project_id # f.project_id)
    /\ ~(f.billable # None /\ entry.billable # f.billable[1])
    /\ ~(/\ f.description_contains # None
         /\ f.description_contains[1] # <<>>
         /\ ~Contains(entry.description, f.description_contains[1]))

\* the three `continue` tests of list_time_entries
PassesListFilters(entry, f) ==
    /\ ~(f.project_id # None /\ entry.project_id # f.project_id)
    /\ ~(f.billable # None /\ entry.billable # f.billable[1])
    /\ ~(/\ f.description_contains # None
         /\ f.description_contains[1] # <<>>
         /\ ~Contains(Lower(entry.description),
                      Lower(f.description_contains[1])))

\* entry.model_dump() with the three computed fields
EntryData(entry, t) ==
    [entry |-> entry,
     calculated_duration |-> CalculateDuration(entry, t),
     duration_formatted |-> FormatDuration(CalculateDuration(entry, t)),
     is_running |->
        (IF entry.duration = None THEN 0 ELSE entry.duration[1]) < 0]

\* sum(...) of a list of durations, and += over a loop
RECURSIVE SumDurations(_)
SumDurations(durations) ==
    IF durations = <<>> THEN 0
    ELSE SumDurations(SubSeq(durations, 1, Len(durations) - 1))
            + durations[Len(durations)]

\* the dict list_time_entries returns for the fetched entries
ListTimeEntries(fetched, f, t) ==
    LET kept == SelectSeq(fetched, LAMBDA e : PassesListFilters(e, f))
        filtered_entries == [i \in 1..Len(kept) |-> EntryData(kept[i], t)]
        total_duration ==
            SumDurations([i \in 1..Len(kept) |->
                filtered_entries[i].calculated_duration])
    IN [kind |-> "list",
        time_entries |-> filtered_entries,
        total_count |-> Len(filtered_entries),
        total_duration |-> total_duration,
        total_duration_formatted |-> FormatDuration(total_duration),
        filters_applied |-> f]

\* project_map.get(id), client_map.get(id): the last record with the id
MapGet(records, id) ==
    LET at == {i \in 1..Len(records) : records[i].id = id} IN
    IF at = {} THEN None
    ELSE Some(records[CHOOSE i \in at : \A j \in at : j <= i])

\* variant: an entry whose project is not known is left out
PassesSummaryFiltersKnownOnly(entry, f, ps) ==
    LET project == IF entry.project_id # None
                   THEN MapGet(ps, entry.project_id[1]) ELSE None
    IN /\ project # None
       /\ ~(f.client_id # None /\ project[1].client_id # f.client_id)
       /\ ~(f.project_id # None /\ entry.project_id # f.project_id)
       /\ ~(f.billable # None /\ entry.billable # f.billable[1])

\* the `continue` tests of get_time_summary
PassesSummaryFilters(entry, f, ps) ==
    LET project == IF entry.project_id # None
                   THEN MapGet(ps, entry.project_id[1]) ELSE None
    IN /\ ~(/\ f.client_id # None
            /\ \/ project = None
               \/ project[1].client_id # f.client_id)
       /\ ~(f.project_id # None /\ entry.project_id # f.project_id)
       /\ ~(f.billable # None /\ entry.billable # f.billable[1])

\* name or fallback
NameOr(name, fallback) ==
    IF name = None \/ name[1] = "" THEN fallback ELSE name[1]

\* project_name of an entry
ProjectName(entry, ps) ==
    IF /\ entry.project_id # None
       /\ entry.project_id[1] # 0
       /\ MapGet(ps, entry.project_id[1]) # None
    THEN NameOr(MapGet(ps, entry.project_id[1])[1].name, "No Project")
    ELSE "No Project"

\* client_name of an entry
ClientName(entry, ps, cs) ==
    IF /\ entry.project_id # None
       /\ entry.project_id[1] # 0
       /\ MapGet(ps, entry.project_id[1]) # None
    THEN LET project == MapGet(ps, entry.project_id[1])[1] IN
         IF /\ project.client_id # None
            /\ project.client_id[1] # 0
            /\ MapGet(cs, project.client_id[1]) # None
         THEN NameOr(MapGet(cs, project.client_id[1])[1].name, "No Client")
         ELSE "No Client"
    ELSE "No Client"

\* variant: a name seen again replaces what was counted under it
AddToBreakdownReplacing(breakdown, name, d) ==
    IF \E i \in 1..Len(breakdown) : breakdown[i].name = name
    THEN [i \in 1..Len(breakdown) |->
            IF breakdown[i].name = name
            THEN [name |-> name, duration |-> d, count |-> 1]
            ELSE breakdown[i]]
    ELSE Append(breakdown, [name |-> name, duration |-> d, count |-> 1])

\* breakdown[name]["duration"] += duration; breakdown[name]["count"] += 1
AddToBreakdown(breakdown, name, d) ==
    IF \E i \in 1..Len(breakdown) : breakdown[i].name = name
    THEN [i \in 1..Len(breakdown) |->
            IF breakdown[i].name = name
            THEN [name |-> name,
                  duration |-> breakdown[i].duration + d,
                  count |-> breakdown[i].count + 1]
            ELSE breakdown[i]]
    ELSE Append(breakdown, [name |-> name, duration |-> d, count |-> 1])

\* a breakdown dict, in insertion order, of entries keyed by name
RECURSIVE Breakdown(_)
Breakdown(keyed) ==
    IF keyed = <<>> THEN <<>>
    ELSE AddToBreakdown(Breakdown(SubSeq(keyed, 1, Len(keyed) - 1)),
                        keyed[Len(keyed)].name, keyed[Len(keyed)].duration)

\* sorted(items, key = duration, reverse = True): stable
RECURSIVE SortedByDuration(_)
SortedByDuration(items) ==
    IF items = <<>> THEN <<>>
    ELSE LET sorted == SortedByDuration(SubSeq(items, 1, Len(items) - 1))
             x == items[Len(items)]
             k == Cardinality({i \in 1..Len(sorted) :
                                  sorted[i].duration >= x.duration})
         IN SubSeq(sorted, 1, k) \o <<x>> \o SubSeq(sorted, k + 1, Len(sorted))

\* format_breakdown(breakdown_dict)
FormatBreakdown(breakdown) ==
    LET sorted == SortedByDuration(breakdown) IN
    [i \in 1..Len(sorted) |->
        [name |-> sorted[i].name,
         duration |-> sorted[i].duration,
         duration_formatted |-> FormatDuration(sorted[i].duration),
         entries_count |-> sorted[i].count]]

\* the dict get_time_summary returns for the fetched data; the entries
\* carry no tags
GetTimeSummary(fetched, ps, cs, f, t) ==
    LET filtered_entries ==
            SelectSeq(fetched, LAMBDA e : PassesSummaryFilters(e, f, ps))
        n == Len(filtered_entries)
        duration == [i \in 1..n |-> CalculateDuration(filtered_entries[i], t)]
        total_duration == SumDurations(duration)
        billable_duration ==
            SumDurations([i \in 1..n |->
                IF filtered_entries[i].billable THEN duration[i] ELSE 0])
        project_breakdown ==
            Breakdown([i \in 1..n |->
                [name |-> ProjectName(filtered_entries[i], ps),
                 duration |-> duration[i]]])
        client_breakdown ==
            Breakdown([i \in 1..n |->
                [name |-> ClientName(filtered_entries[i], ps, cs),
                 duration |-> duration[i]]])
    IN [kind |-> "summary",
        total_duration |-> total_duration,
        total_duration_formatted |-> FormatDuration(total_duration),
        billable_duration |-> billable_duration,
        non_billable_duration |-> total_duration - billable_duration,
        total_entries |-> n,
        project_breakdown |-> FormatBreakdown(project_breakdown),
        client_breakdown |-> FormatBreakdown(client_breakdown),
        tag_breakdown |-> <<>>,
        filters_applied |-> f]

\* list_time_entries runs on the entries get_time_entries returned
ListTimeEntriesCall(fetched, f) ==
    /\ filters = None
    /\ now' = InvokedAt
    /\ entries' = fetched
    /\ filters' = Some(f)
    /\ report' = ListTimeEntries(fetched, f, now')
    /\ UNCHANGED <<projects, clients>>
    /\ UNCHANGED <<posts, PYTEST_CURRENT_TEST, MCP_API_KEY, request,
                   response, forwarded>>
    /\ UNCHANGED <<requests_per_second, burst_size, tokens, last_update,
                   lock, waiters, pc, wake, log, grants>>
    /\ UNCHANGED requestVars
    /\ UNCHANGED clientVars
    /\ UNCHANGED <<serverVars, probeVars>>

\* get_time_summary runs on what get_time_entries, get_projects and
\* get_clients returned
GetTimeSummaryCall(fetched, ps, cs, f) ==
    /\ filters = None
    /\ now' = InvokedAt
    /\ entries' = fetched
    /\ projects' = ps
    /\ clients' = cs
    /\ filters' = Some(f)
    /\ report' = GetTimeSummary(fetched, ps, cs, f, now')
    /\ UNCHANGED <<posts, PYTEST_CURRENT_TEST, MCP_API_KEY, request,
                   response, forwarded>>
    /\ UNCHANGED <<requests_per_second, burst_size, tokens, last_update,
                   lock, waiters, pc, wake, log, grants>>
    /\ UNCHANGED requestVars
    /\ UNCHANGED clientVars
    /\ UNCHANGED <<serverVars, probeVars>>

\* ---- the Reports API methods: get_team_time_entries, get_team_summary

\* the token the client was constructed with
ApiToken == "token"

\* self.auth_header
AuthHeader(api_token) ==
    <<"Basic ", <<"base64", api_token, ":api_token">>>>

\* the headers of _make_request
ExecutorHeaders ==
    [Authorization |-> AuthHeader(ApiToken),
     ContentType |-> "application/json",
     UserAgent |-> Some("toggl-track-mcp/0.1.0")]

\* the headers of the Reports API POST
ReportsHeaders ==
    [Authorization |-> AuthHeader(ApiToken),
     ContentType |-> "application/json",
     UserAgent |-> None]

\* the url of the Reports API POST
ReportsPath(method, ws) ==
    [endpoint |->
        IF method = "get_team_summary"
        THEN "reports/api/v3/workspace/{workspace_id}/summary/time_entries"
        ELSE "reports/api/v3/workspace/{workspace_id}/search/time_entries",
     workspace_id |-> ws]

\* A Reports method is called: without a workspace_id argument it starts
\* with get_current_user(), else it goes on to the limiter.
ReportsCall(method, a) ==
    /\ apc = "idle"
    /\ acc' = method
    /\ arg' = a
    /\ executed' = <<>>
    /\ aresult' = NoOutcome
    /\ IF a = None
       THEN /\ apc' = "user"
            /\ paths' = <<Path("get_current_user", None)>>
       ELSE /\ apc' = "acquire"
            /\ paths' = <<ReportsPath(method, a)>>
    /\ UNCHANGED <<client_workspace_id, time_entry, duration_result>>
    /\ UNCHANGED limiterVars
    /\ UNCHANGED requestVars
    /\ UNCHANGED <<serverVars, probeVars, handlerVars>>

\* the _make_request call of get_current_user() is over: its error ends the
\* method, its user gives the workspace of the url
ReportsUserLookup ==
    /\ apc = "user"
    /\ rpc \in {"returned", "raised"}
    /\ executed' = Append(executed, outcome)
    /\ LET user == GetCurrentUser(outcome) IN
       IF user.kind = "raise"
       THEN /\ apc' = "raised"
            /\ aresult' = user
            /\ paths' = paths
       ELSE /\ apc' = "acquire"
            /\ aresult' = aresult
            /\ paths' = Append(paths,
                   ReportsPath(acc,
                       Some(ResolveWorkspace(client_workspace_id,
                                DefaultWorkspaceId(outcome.value)))))
    /\ UNCHANGED <<client_workspace_id, acc, arg, time_entry, duration_result>>
    /\ UNCHANGED limiterVars
    /\ UNCHANGED requestVars
    /\ UNCHANGED <<serverVars, probeVars, handlerVars>>

\* variant: the method goes on to the POST without the limiter
ReportsAcquireSkipped ==
    /\ apc = "acquire"
    /\ apc' = "post"
    /\ UNCHANGED <<client_workspace_id, acc, arg, paths, executed, aresult,
                   time_entry, duration_result>>
    /\ UNCHANGED limiterVars
    /\ UNCHANGED requestVars
    /\ UNCHANGED <<serverVars, probeVars, handlerVars>>

\* await self.rate_limiter.acquire()
ReportsAcquire ==
    /\ apc = "acquire"
    /\ AcquireEnter(Caller)
    /\ acquires' = acquires + 1
    /\ apc' = IF pc'[Caller] = "idle" THEN "post" ELSE "acquiring"
    /\ UNCHANGED <<requests_per_second, burst_size, now>>
    /\ UNCHANGED <<rpc, retries, attempt, received, sleeps, outcome>>
    /\ UNCHANGED <<client_workspace_id, acc, arg, paths, executed, aresult,
                   time_entry, duration_result>>
    /\ UNCHANGED <<serverVars, probeVars, handlerVars>>

\* that acquire() sleeps its wait_time out and returns
ReportsAcquired ==
    /\ apc = "acquiring"
    /\ now' = wake[Caller]
    /\ AcquireWake(Caller)
    /\ apc' = "post"
    /\ UNCHANGED <<requests_per_second, burst_size>>
    /\ UNCHANGED requestVars
    /\ UNCHANGED <<client_workspace_id, acc, arg, paths, executed, aresult,
                   time_entry, duration_result>>
    /\ UNCHANGED <<serverVars, probeVars, handlerVars>>

\* variant: a first 429 sends the method back to the limiter
ReportsPostRetrying(resp) ==
    /\ apc = "post"
    /\ posts' = Append(posts, [path |-> paths[Len(paths)],
                               headers |-> ReportsHeaders,
                               response |-> resp])
    /\ LET o == ReportsResult(acc, resp) IN
       IF resp.kind = "response" /\ resp.status = 429 /\ posts = <<>>
       THEN /\ apc' = "acquire"
            /\ aresult' = aresult
       ELSE /\ aresult' = o
            /\ apc' = IF o.kind = "return" THEN "returned" ELSE "raised"
    /\ UNCHANGED <<client_workspace_id, acc, arg, paths, executed,
                   time_entry, duration_result>>
    /\ UNCHANGED limiterVars
    /\ UNCHANGED requestVars
    /\ UNCHANGED <<serverVars, probeVars>>
    /\ UNCHANGED <<PYTEST_CURRENT_TEST, MCP_API_KEY, request, response,
                   forwarded, entries, projects, clients, filters, report>>

\* client.post(url, json=payload, headers=..., timeout=30.0) and what the
\* method makes of the answer
ReportsPost(resp) ==
    /\ apc = "post"
    /\ posts' = Append(posts, [path |-> paths[Len(paths)],
                               headers |-> ReportsHeaders,
                               response |-> resp])
    /\ LET o == ReportsResult(acc, resp) IN
       /\ aresult' = o
       /\ apc' = IF o.kind = "return" THEN "returned" ELSE "raised"
    /\ UNCHANGED <<client_workspace_id, acc, arg, paths, executed,
                   time_entry, duration_result>>
    /\ UNCHANGED limiterVars
    /\ UNCHANGED requestVars
    /\ UNCHANGED <<serverVars, probeVars>>
    /\ UNCHANGED <<PYTEST_CURRENT_TEST, MCP_API_KEY, request, response,
                   forwarded, entries, projects, clients, filters, report>>

\* --------------------------------------------- the limiter specification

Acquire(t) ==
    /\ Len(log) + Len(waiters) < MaxAcquires
    /\ AcquireEnter(t)
    /\ UNCHANGED <<requests_per_second, burst_size, now>>
    /\ UNCHANGED requestVars
    /\ UNCHANGED clientVars
    /\ UNCHANGED <<serverVars, probeVars, handlerVars>>

Resume(t) ==
    /\ AcquireLocked(t)
    /\ UNCHANGED <<requests_per_second, burst_size, now>>
    /\ UNCHANGED requestVars
    /\ UNCHANGED clientVars
    /\ UNCHANGED <<serverVars, probeVars, handlerVars>>

Wake(t) ==
    /\ now = wake[t]
    /\ now' = now
    /\ AcquireWake(t)
    /\ UNCHANGED <<requests_per_second, burst_size>>
    /\ UNCHANGED requestVars
    /\ UNCHANGED clientVars
    /\ UNCHANGED <<serverVars, probeVars, handlerVars>>

\* a sleeping task wakes exactly when its sleep ends
Tick ==
    /\ now < MaxTime
    /\ \A t \in Tasks : pc[t] = "sleep" => now < wake[t]
    /\ now' = now + 1
    /\ UNCHANGED <<requests_per_second, burst_size, tokens, last_update,
                   lock, waiters, pc, wake, log, grants>>
    /\ UNCHANGED requestVars
    /\ UNCHANGED clientVars
    /\ UNCHANGED <<serverVars, probeVars, handlerVars>>

Init ==
    /\ LimiterInit
    /\ RequestInit
    /\ ClientInit(None)
    /\ ServerInit(Some("TogglAPIClient"), FALSE)
    /\ ProbeInit
    /\ HandlerInit

Next ==
    \/ \E t \in Tasks : Acquire(t)
    \/ \E t \in Tasks : Resume(t)
    \/ \E t \in Tasks : Wake(t)
    \/ Tick

Spec == Init /\ [][Next]_vars

\* ---------------------------------------------- the fair specification
\* The limiter under the scheduling asyncio provides: a sleep ends when its
\* time has come, however late that is, and a released lock is taken by
\* its first waiter.

\* asyncio.sleep(wait_time) of task t runs out
SleepOut(t) ==
    /\ pc[t] = "sleep"
    /\ now <= wake[t]
    /\ now' = wake[t]
    /\ AcquireWake(t)
    /\ UNCHANGED <<requests_per_second, burst_size>>
    /\ UNCHANGED requestVars
    /\ UNCHANGED clientVars
    /\ UNCHANGED <<serverVars, probeVars, handlerVars>>

NextFair ==
    \/ \E t \in Tasks : Acquire(t)
    \/ \E t \in Tasks : Resume(t)
    \/ \E t \in Tasks : SleepOut(t)
    \/ Tick

SpecFair ==
    /\ Init
    /\ [][NextFair]_vars
    /\ \A t \in Tasks : WF_vars(Resume(t))
    /\ \A t \in Tasks : WF_vars(SleepOut(t))

\* ------------------------------------------ the observation specification
\* The limiter specification, with get_available_tokens() read in between.

NextObserve ==
    \/ Next
    \/ GetAvailableTokensCall

SpecObserve == Init /\ [][NextObserve]_vars

\* --------------------------------------------- the request specification
\* One task makes one _make_request call on a client whose limiter has
\* handed out some or all of its burst.  "returned" and "raised" end it.

NextRequest ==
    \/ \E r \in 0..MaxRetries : MakeRequestCall(r)
    \/ MakeRequestAcquired
    \/ \E resp \in Responses : MakeRequestAttempt(resp)
    \/ MakeRequestSleep
    \/ MakeRequestExhausted
    \/ EarlierAcquire

SpecRequest == Init /\ [][NextRequest]_vars

\* The request specification with every step of the call taken in the end:
\* the limiter's sleep is over, the HTTP request is answered or fails
\* (timeout = 30.0), asyncio.sleep returns, the loop is left.
SpecRequestFair ==
    /\ SpecRequest
    /\ WF_vars(MakeRequestAcquired)
    /\ WF_vars(\E resp \in Responses : MakeRequestAttempt(resp))
    /\ WF_vars(MakeRequestSleep)
    /\ WF_vars(MakeRequestExhausted)

\* --------------------------------------------- the shared specification
\* The request specification, with a second task that calls acquire() on
\* the same limiter while the request sleeps between two attempts.

Other == 2

Max(a, b) == IF a >= b THEN a ELSE b

\* the other task calls acquire()
OtherAcquire ==
    /\ rpc = "sleep"
    /\ sleep_grants < MaxOtherAcquires
    /\ AcquireEnter(Other)
    /\ sleep_grants' = IF pc'[Other] = "idle" THEN sleep_grants + 1
                       ELSE sleep_grants
    /\ UNCHANGED <<requests_per_second, burst_size, now>>
    /\ UNCHANGED <<seconds, formatted, available>>
    /\ UNCHANGED requestVars
    /\ UNCHANGED clientVars
    /\ UNCHANGED <<serverVars, handlerVars>>

\* the other task's sleep inside acquire() runs out, no earlier than asked
OtherSleepOut ==
    /\ rpc = "sleep"
    /\ pc[Other] = "sleep"
    /\ now' = Max(now, wake[Other])
    /\ AcquireWake(Other)
    /\ sleep_grants' = sleep_grants + 1
    /\ UNCHANGED <<requests_per_second, burst_size>>
    /\ UNCHANGED <<seconds, formatted, available>>
    /\ UNCHANGED requestVars
    /\ UNCHANGED clientVars
    /\ UNCHANGED <<serverVars, handlerVars>>

\* the answers after which the executor sleeps, and one that ends the call
SleepResponses ==
    {resp \in Responses :
        resp.kind = "RequestError" \/ resp.status \in {429, 500, 204}}

NextShared ==
    \/ \E r \in 0..MaxRetries : MakeRequestCall(r)
    \/ MakeRequestAcquired
    \/ \E resp \in SleepResponses : MakeRequestAttempt(resp)
    \/ MakeRequestSleep
    \/ MakeRequestExhausted
    \/ EarlierAcquire
    \/ OtherAcquire
    \/ OtherSleepOut

SpecShared == Init /\ [][NextShared]_vars

\* -------------------------------------------- the accessor specification
\* One accessor call on a client constructed with or without a workspace_id;
\* each of its _make_request calls ends in one of MakeRequestOutcomes.

InitAccessor ==
    /\ LimiterInit
    /\ RequestInit
    /\ \E ws \in OptionalWorkspaceIds : ClientInit(ws)
    /\ ServerInit(Some("TogglAPIClient"), FALSE)
    /\ ProbeInit
    /\ HandlerInit

NextAccessor ==
    \/ \E name \in SingleAccessors \cup CollectionAccessors :
          \E a \in OptionalWorkspaceIds : AccessorCall(name, a)
    \/ \E o \in MakeRequestOutcomes : AccessorUserLookup(o)
    \/ \E o \in MakeRequestOutcomes : AccessorResource(o)

SpecAccessor == InitAccessor /\ [][NextAccessor]_vars

\* -------------------------------------------- the duration specification
\* calculate_duration is called once, at some time, on some entry.

InitDuration ==
    /\ LimiterInit
    /\ RequestInit
    /\ client_workspace_id = None
    /\ acc = "none"
    /\ arg = None
    /\ apc = "idle"
    /\ paths = <<>>
    /\ executed = <<>>
    /\ aresult = NoOutcome
    /\ time_entry \in [duration : Durations]
    /\ duration_result = None
    /\ ServerInit(Some("TogglAPIClient"), FALSE)
    /\ ProbeInit
    /\ HandlerInit

NextDuration ==
    \/ Tick
    \/ CalculateDurationCall

SpecDuration == InitDuration /\ [][NextDuration]_vars

\* ---------------------------------------------- the formatting specification
\* format_duration is called once on some number of seconds.

InitFormat ==
    /\ LimiterInit
    /\ RequestInit
    /\ ClientInit(None)
    /\ ServerInit(Some("TogglAPIClient"), FALSE)
    /\ seconds \in 0..MaxSeconds
    /\ formatted = None
    /\ available = None
    /\ sleep_grants = 0
    /\ HandlerInit

NextFormat == FormatDurationCall

SpecFormat == InitFormat /\ [][NextFormat]_vars
\* ------------------------------------------------- the tool specification
\* One tool invocation on a server loaded with or without an API token and
\* with or without the write flag; each client method the tool awaits ends
\* in one of ClientOutcomes.

ClientMethods ==
    UNION {{ToolPlan(name)[i] : i \in 1..Len(ToolPlan(name))} : name \in Tools}

AllClientOutcomes == UNION {ClientOutcomes(method) : method \in ClientMethods}

InitTool ==
    /\ LimiterInit
    /\ requests_per_second = One
    /\ burst_size = MaxBurst
    /\ RequestInit
    /\ ClientInit(None)
    /\ \E client \in {None, Some("TogglAPIClient")} :
          \E write \in BOOLEAN : ServerInit(client, write)
    /\ ProbeInit
    /\ HandlerInit

NextTool ==
    \/ \E name \in ReadTools : ToolInvoke(name, None)
    \/ \E tg \in TagInputs : ToolInvoke("create_time_entry", tg)
    \/ \E o \in AllClientOutcomes : ToolClientDone(o)

SpecTool == InitTool /\ [][NextTool]_vars

\* --------------------------------------------- the Reports specification
\* One task calls one Reports method on a client whose limiter has handed
\* out some or all of its burst; the get_current_user() of a call without a
\* workspace_id runs as a _make_request call with the default retries.

InitReports ==
    /\ LimiterInit
    /\ RequestInit
    /\ \E ws \in OptionalWorkspaceIds : ClientInit(ws)
    /\ ServerInit(Some("TogglAPIClient"), FALSE)
    /\ ProbeInit
    /\ HandlerInit

NextReports ==
    \/ \E method \in {"get_team_time_entries", "get_team_summary"} :
       \E a \in OptionalWorkspaceIds :
          ReportsCall(method, a)
    \/ apc = "user" /\ MakeRequestCall(DefaultRetries)
    \/ MakeRequestAcquired
    \/ \E resp \in {r \in Responses :
                      \/ r.kind = "RequestError"
                      \/ r.status \in {429, 500}
                      \/ r.status = 200 /\ r.body = UserBody} :
          MakeRequestAttempt(resp)
    \/ MakeRequestSleep
    \/ MakeRequestExhausted
    \/ EarlierAcquire
    \/ ReportsUserLookup
    \/ ReportsAcquire
    \/ ReportsAcquired
    \/ \E resp \in Responses : ReportsPost(resp)

SpecReports == InitReports /\ [][NextReports]_vars

\* ------------------------------------- the authentication specification
\* The module is loaded in some environment and one request arrives.

InitAuth ==
    /\ LimiterInit
    /\ requests_per_second = One
    /\ burst_size = MaxBurst
    /\ RequestInit
    /\ ClientInit(None)
    /\ ServerInit(Some("TogglAPIClient"), FALSE)
    /\ ProbeInit
    /\ \E pytest \in {None, Some(""),
                       Some("tests/test_server.py::test (call)")} :
       \E key \in {None, Some(<<>>)} \cup {Some(k) : k \in Keys} :
          HandlerInitWith(pytest, key)

NextAuth ==
    /\ request = None
    /\ \E path \in RequestPaths : \E header \in AuthorizationHeaders :
          AuthenticateRequest(path, header)

SpecAuth == InitAuth /\ [][NextAuth]_vars

\* ---------------------------------------- the aggregation specification
\* One of the two aggregating tools runs once on data its fetches returned.

InitAggregate ==
    /\ LimiterInit
    /\ requests_per_second = One
    /\ burst_size = MaxBurst
    /\ RequestInit
    /\ ClientInit(None)
    /\ ServerInit(Some("TogglAPIClient"), FALSE)
    /\ ProbeInit
    /\ HandlerInit

NextAggregate ==
    \/ /\ filters = None
       /\ \E fetched \in ListsOf(ListedEntries) : \E f \in ListFilters :
             ListTimeEntriesCall(fetched, f)
    \/ /\ filters = None
       /\ \E fetched \in ListsOf(SummarizedEntries) :
          \E ps \in ProjectLists : \E cs \in ClientLists :
          \E f \in SummaryFilters :
             GetTimeSummaryCall(fetched, ps, cs, f)

SpecAggregate == InitAggregate /\ [][NextAggregate]_vars

\* ===================================================== claims: the limiter

Last(q) == q[Len(q)]

\* C1: the acquire() calls that have returned within any time window of
\* length T number at most burst_size + requests_per_second * T.  Grants
\* i..j lie in a window as short as grants[j] - grants[i].
C1_RateBounded ==
    \A i \in 1..Len(grants) : \A j \in i..Len(grants) :
        (j - i + 1) * One
            <= burst_size * One + requests_per_second * (grants[j] - grants[i])

\* C2: in every state, also while a caller is suspended and whatever time
\* has passed, 0 <= tokens <= burst_size and get_available_tokens() is in
\* [0, burst_size].
C2_TokensWithinBucket ==
    /\ 0 <= tokens
    /\ tokens <= burst_size * One
    /\ 0 <= GetAvailableTokens
    /\ GetAvailableTokens <= burst_size * One

\* a caller is suspended on a fractional bucket, time has passed since the
\* refill, and the bucket has been emptied and refilled to the cap before
C2_Witness ==
    /\ \E t \in Tasks : pc[t] = "sleep"
    /\ 0 < tokens
    /\ tokens < One
    /\ last_update < now
    /\ \E i \in 1..Len(log) : log[i].tok = burst_size * One /\ log[i].at > 0

\* C3: on a new limiter the first burst_size acquire() calls return without
\* suspending, and call burst_size + 1, made with no time elapsed since
\* construction, suspends for 1 / requests_per_second.
C3_BurstThenWait ==
    \A i \in 1..Len(log) :
        /\ i <= burst_size => ~log[i].slept
        /\ (i = burst_size + 1 /\ log[i].at = 0) =>
              /\ log[i].slept
              /\ log[i].wait * requests_per_second = One
              /\ i <= Len(grants) => grants[i] = log[i].wait

\* call burst_size + 1 was made at construction time and has returned
C3_Witness ==
    /\ Len(grants) > burst_size
    /\ log[burst_size + 1].at = 0
    /\ log[burst_size + 1].slept
    /\ burst_size > 1

\* C4: an acquire() that finds t < 1 token after the refill suspends for
\* exactly (1 - t) / requests_per_second, which for t > 0 is less than a
\* full 1 / requests_per_second.
C4_ProportionalWait ==
    \A i \in 1..Len(log) :
        log[i].tok < One =>
            /\ log[i].slept
            /\ log[i].wait * requests_per_second = One - log[i].tok
            /\ log[i].tok > 0 => log[i].wait * requests_per_second < One
            /\ i <= Len(grants) => grants[i] = log[i].at + log[i].wait

\* a call found a fractional bucket, slept and returned
C4_Witness ==
    \E i \in 1..Len(grants) :
        /\ 0 < log[i].tok
        /\ log[i].tok < One
        /\ grants[i] > log[i].at

\* ================================================ claims: _make_request

Ended == rpc \in {"returned", "raised"}

Is429(resp) == resp.kind = "response" /\ resp.status = 429

\* a 2xx response whose body is empty or is JSON
IsUsable2xx(resp) ==
    /\ resp.kind = "response"
    /\ IsSuccess(resp.status)
    /\ resp.body = "" \/ ValidJson(resp.body)

ValueOf(resp) ==
    IF resp.status = 204 \/ resp.body = "" THEN EmptyObject
    ELSE Json(resp.body)

MaxRetriesExceeded == Raise("TogglAPIError", <<"Max retries exceeded">>, None)

\* C5: one _make_request makes as many rate_limiter.acquire() calls as it
\* issues HTTP requests (one before every attempt, retries included).
C5_AcquirePerAttempt == Ended => acquires = Len(received)

\* C6: a call that receives a 429 with Retry-After: 3 and then a 2xx
\* response returns that response's value, raises nothing, and sleeps
\* exactly once in between, for 3 seconds.
C6_RetryAfterThenSuccess ==
    ( /\ Len(received) = 2
      /\ Is429(received[1])
      /\ received[1].retry_after = Some(<<"3">>)
      /\ IsUsable2xx(received[2]) )
    => /\ rpc = "returned"
       /\ outcome = Return(ValueOf(received[2]))
       /\ sleeps = <<3>>

\* a 429 with Retry-After: 3, then a 200 with a JSON object, and budget left
C6_Witness ==
    /\ rpc = "returned"
    /\ Len(received) = 2
    /\ Is429(received[1])
    /\ received[1].retry_after = Some(<<"3">>)
    /\ received[2].status = 200
    /\ outcome.value = "object:id=1"
    /\ retries = DefaultRetries

IsGenericFailure(resp) ==
    /\ resp.kind = "response"
    /\ ~(resp.status >= 200 /\ resp.status < 300)
    /\ resp.status \notin {429, 402, 410}

C14_EmptyBodySucceeds ==
    \A i \in 1..Len(received) :
        ( /\ received[i].kind = "response"
          /\ received[i].status = 204 \/ received[i].body = "" )
        => /\ i = Len(received)
           /\ rpc = "returned"
           /\ outcome = Return("object:")

\* C14 as amended: a 2xx response ends the call.  With status 204 or an
\* empty body the call returns {}; with a JSON body it returns the parsed
\* value; a 2xx body that is not JSON makes response.json() raise.  An
\* empty body on a non-2xx response is handled by its status.
C14_SuccessValue ==
    \A i \in 1..Len(received) :
        LET resp == received[i] IN
        (resp.kind = "response" /\ resp.status >= 200 /\ resp.status < 300)
        => /\ i = Len(received)
           /\ Ended
           /\ (resp.status = 204 \/ resp.body = "")
                 => outcome = Return("object:")
           /\ (resp.status # 204 /\ resp.body = "{\"id\": 1}")
                 => outcome = Return("object:id=1")
           /\ (resp.status # 204 /\ resp.body = "[{\"id\": 1}]")
                 => outcome = Return("list:id=1")
           /\ (resp.status # 204 /\ resp.body = "<html>")
                 => rpc = "raised" /\ outcome.exc = "JSONDecodeError"

\* an empty 404 was retried, then an empty 200 gave {}
C14_Witness ==
    /\ Len(received) = 2
    /\ received[1].status = 404
    /\ received[1].body = ""
    /\ received[2].status = 200
    /\ received[2].body = ""
    /\ rpc = "returned"
    /\ outcome = Return("object:")

\* C15: every call that ends returns a JSON value or raises TogglAPIError;
\* no other exception leaves _make_request.
C15_TypedOutcome ==
    Ended => \/ rpc = "returned" /\ outcome.kind = "return"
             \/ rpc = "raised" /\ outcome.exc = "TogglAPIError"

\* ------------------------------------------------------------ accessors

AccessorEnded == apc \in {"returned", "raised"}

\* the accessor whose _make_request call was answered last: get_current_user
\* while a workspace-scoped accessor looks the user up, else the accessor
\* that was called
Answered == IF Last(paths).endpoint = "/me" THEN "get_current_user" ELSE acc

\* C16: get_current_time_entry returns None when its request fails with a
\* TogglAPIError of status 404, and raises that very error when the request
\* fails with another status code or with none.
C16_NotFoundIsNone ==
    (/\ acc = "get_current_time_entry"
     /\ AccessorEnded
     /\ Last(executed).kind = "raise"
     /\ Last(executed).exc = "TogglAPIError")
    => IF Last(executed).status_code = Some(404)
       THEN apc = "returned" /\ aresult = Return("None")
       ELSE apc = "raised" /\ aresult = Last(executed)

\* the request for the running entry failed with 'HTTP 404: ' and the
\* accessor returned None
C16_Witness ==
    /\ acc = "get_current_time_entry"
    /\ Len(executed) = 1
    /\ executed[1].kind = "raise"
    /\ executed[1].exc = "TogglAPIError"
    /\ executed[1].status_code = Some(404)
    /\ apc = "returned"
    /\ aresult = Return("None")

\* the workspace the precedence of C17 selects for the call in progress
ChosenWorkspace ==
    IF arg # None THEN arg[1]
    ELSE IF client_workspace_id # None THEN client_workspace_id[1]
    ELSE DefaultWorkspaceId("object:user")

\* C17: every resource path that get_projects, get_clients or get_tags
\* requests is the path of the workspace chosen by precedence: the argument,
\* else the client's workspace_id, else the user's default_workspace_id; a
\* call that returns has requested that path last.
C17_WorkspacePrecedence ==
    acc \in ScopedAccessors =>
        /\ \A i \in 1..Len(paths) :
              paths[i].endpoint # "/me"
              => paths[i] = Path(acc, Some(ChosenWorkspace))
        /\ apc = "returned" => Last(paths) = Path(acc, Some(ChosenWorkspace))

\* get_projects() without an argument on a client configured with workspace
\* 7 requested /workspaces/7/projects and returned
C17_Witness ==
    /\ acc = "get_projects"
    /\ arg = None
    /\ client_workspace_id = Some(7)
    /\ apc = "returned"
    /\ Last(paths) = Path("get_projects", Some(7))

\* C18: a workspace-scoped accessor looks the current user up only when it
\* has neither a workspace_id argument nor a client workspace_id; with
\* either of them it makes exactly one request, the resource request.
C18_LookupOnlyWhenNeeded ==
    (/\ acc \in ScopedAccessors
     /\ AccessorEnded
     /\ arg # None \/ client_workspace_id # None)
    => /\ Len(executed) = 1
       /\ paths = <<Path(acc, Some(ChosenWorkspace))>>

\* C19: a single-resource accessor whose request returns a list, and a
\* collection accessor whose request returns an object, raises TogglAPIError
\* 'Invalid response format ...' at once, without another request.
C19_InvalidFormat ==
    (/\ acc # "none"
     /\ Len(executed) > 0
     /\ Len(executed) = Len(paths)
     /\ Last(executed).kind = "return"
     /\ \/ Answered \in SingleAccessors /\ IsList(Last(executed).value)
        \/ Answered \in CollectionAccessors /\ IsDict(Last(executed).value))
    => /\ apc = "raised"
       /\ aresult.exc = "TogglAPIError"
       /\ aresult.message[1] = "Invalid response format for "

\* ------------------------------------------------------------- durations

\* what C20 says calculate_duration returns for the entry at the present time
ElapsedSeconds ==
    IF time_entry.duration = None THEN 0
    ELSE IF time_entry.duration[1] >= 0 THEN time_entry.duration[1]
    ELSE UnixTime(now) + time_entry.duration[1]

\* C20: calculate_duration returns the entry's duration when it is >= 0, the
\* current unix time plus the duration when it is negative, 0 when the entry
\* has no duration, and leaves the entry as it was.
C20_CalculateDuration ==
    [][duration_result' # duration_result
       => /\ duration_result' = Some(ElapsedSeconds)
          /\ time_entry' = time_entry]_vars

\* a running entry with duration -1 was measured at unix time 2
C20_Witness ==
    /\ time_entry.duration = Some(0 - 1)
    /\ duration_result = Some(1)

\* ------------------------------------------------------------ formatting

\* the position of the first character c of text
IndexOf(text, c) ==
    CHOOSE i \in 1..Len(text) :
        text[i] = c /\ \A j \in 1..(i - 1) : text[j] # c

\* the two components of a rendered duration "<hours>h <minutes>m"
HoursText(text) == SubSeq(text, 1, IndexOf(text, "h") - 1)

MinutesText(text) == SubSeq(text, IndexOf(text, "h") + 2, Len(text) - 1)

\* C21: for every s >= 0, format_duration(s) is "<h>h <m>m" with both
\* numbers present, 0 <= m <= 59 and 3600*h + 60*m <= s < 3600*h + 60*m + 60
\* (so h = s div 3600 and m = (s mod 3600) div 60).
C21_FormatDuration ==
    formatted # None =>
        LET text == formatted[1]
            h == ParseInt(HoursText(text))
            m == ParseInt(MinutesText(text))
        IN /\ \E i \in 1..Len(text) : text[i] = "h"
           /\ text[IndexOf(text, "h") + 1] = " "
           /\ text[Len(text)] = "m"
           /\ IsInt(HoursText(text))
           /\ IsInt(MinutesText(text))
           /\ 0 <= m /\ m <= 59
           /\ 3600 * h + 60 * m <= seconds
           /\ seconds < 3600 * h + 60 * m + 60
           /\ seconds = 0 => text = <<"0", "h", " ", "0", "m">>

\* 3725 seconds were rendered as "1h 2m"
C21_Witness ==
    /\ seconds = 3725
    /\ formatted = Some(<<"1", "h", " ", "2", "m">>)

\* ----------------------------------------------------------------- tools

ToolEnded == tpc \in {"returned", "raised"}

\* the text of the tags argument, empty when the argument is absent
TagsText == IF tags = None THEN <<>> ELSE tags[1]

NoComma(text, i, j) == \A k \in i..j : text[k] # ","

\* positions where a token of the text starts resp. ends: a character that
\* is neither a comma nor a blank, with only blanks between it and the
\* comma (or the end of the text) on that side
TokenStarts(text) ==
    {i \in 1..Len(text) :
        /\ text[i] \notin {",", " "}
        /\ \A j \in 1..(i - 1) : NoComma(text, j, i) => text[j] = " "}

TokenEnds(text) ==
    {i \in 1..Len(text) :
        /\ text[i] \notin {",", " "}
        /\ \A j \in (i + 1)..Len(text) : NoComma(text, i, j) => text[j] = " "}

\* the trimmed non-empty tokens of the text, in order
Tokens(text) ==
    [k \in 1..Cardinality(TokenStarts(text)) |->
        LET i == CHOOSE x \in TokenStarts(text) :
                     Cardinality({y \in TokenStarts(text) : y < x}) = k - 1
            j == CHOOSE x \in TokenEnds(text) : x >= i /\ NoComma(text, i, x)
        IN SubSeq(text, i, j)]

\* C22: create_time_entry passes the client the ordered list of the trimmed
\* non-empty tokens of its comma-separated tags string, and tags = None
\* (never an empty list) when there is no such token or no string.
C22_ParsedTags ==
    \A n \in 1..Len(client_calls) :
        client_calls[n].method = "create_time_entry"
        => client_calls[n].tags =
              IF TokenStarts(TagsText) = {} THEN None
              ELSE Some(Tokens(TagsText))

\* "a, b" reached the client as ["a", "b"]
C22_Witness ==
    /\ tool = "create_time_entry"
    /\ tags = Some(<<"a", ",", " ", "b">>)
    /\ Len(client_calls) = 1
    /\ client_calls[1].tags = Some(<< <<"a">>, <<"b">> >>)

\* C23: with TOGGL_WRITE_ENABLED false, create_time_entry returns the
\* 'Write operations are disabled ...' error for every input without
\* looking the client up or calling it; it calls the client only when the
\* flag is true.
C23_WriteGate ==
    /\ (tool = "create_time_entry" /\ ~TOGGL_WRITE_ENABLED)
       => /\ tpc = "returned"
          /\ tresult = ErrorResult(WriteDisabled)
          /\ client_calls = <<>>
          /\ client_outcomes = <<>>
    /\ \A n \in 1..Len(client_calls) :
          client_calls[n].method = "create_time_entry" => TOGGL_WRITE_ENABLED

\* a create with tags on a configured server was refused
C23_Witness ==
    /\ tool = "create_time_entry"
    /\ ~TOGGL_WRITE_ENABLED
    /\ toggl_client # None
    /\ tags = Some(<<"a">>)
    /\ tresult = ErrorResult(WriteDisabled)

TokenRequired == <<"TOGGL_API_TOKEN environment variable is required">>

\* C24: with no API token (toggl_client is None) every tool ends with the
\* error result naming TOGGL_API_TOKEN and calls no client method, hence
\* makes no acquire() and no request.
C24_NoTokenFailsFast ==
    (toggl_client = None /\ tool # "none")
    => /\ tpc = "returned"
       /\ tresult = ErrorResult(TokenRequired)
       /\ client_calls = <<>>

\* C24 as amended: the same, except that create_time_entry with the write
\* flag off ends with the write-disabled error result before it looks the
\* client up; it too calls no client method.
C24_NoTokenFailsFastBehindGate ==
    (toggl_client = None /\ tool # "none")
    => /\ tpc = "returned"
       /\ client_calls = <<>>
       /\ client_outcomes = <<>>
       /\ tresult = IF tool = "create_time_entry" /\ ~TOGGL_WRITE_ENABLED
                    THEN ErrorResult(WriteDisabled)
                    ELSE ErrorResult(TokenRequired)

\* list_projects on a server without a token returned the error result
C24_Witness ==
    /\ toggl_client = None
    /\ tool = "list_projects"
    /\ tpc = "returned"
    /\ tresult = ErrorResult(TokenRequired)
    /\ client_calls = <<>>

\* C25: a TogglAPIError raised by a client method or by the client lookup
\* ends the tool with the result {'error': <message>}; no tool raises a
\* TogglAPIError.
C25_ErrorsReturned ==
    ToolEnded =>
        /\ (/\ client_outcomes # <<>>
            /\ Last(client_outcomes).kind = "raise"
            /\ Last(client_outcomes).exc = "TogglAPIError")
           => /\ tpc = "returned"
              /\ tresult = ErrorResult(Last(client_outcomes).message)
        /\ (toggl_client = None /\ WriteAllowed(tool))
           => /\ tpc = "returned"
              /\ tresult = ErrorResult(TokenRequired)
        /\ tpc = "raised" => tresult.exc # "TogglAPIError"

\* get_time_summary got its entries, then get_projects failed without a
\* status code ('Max retries exceeded'), and the tool returned that text
C25_Witness ==
    /\ tool = "get_time_summary"
    /\ Len(client_outcomes) = 2
    /\ client_outcomes[2].exc = "TogglAPIError"
    /\ client_outcomes[2].status_code = None
    /\ tpc = "returned"
    /\ tresult = ErrorResult(<<"Max retries exceeded">>)

\* C30: the error text a tool returns for an upstream HTTP failure (402,
\* 410, another non-2xx after the retries, a Reports API non-200) contains
\* the upstream status code.
C30_StatusInErrorText ==
    (/\ tpc = "returned"
     /\ tresult.kind = "error"
     /\ client_outcomes # <<>>
     /\ Last(client_outcomes).kind = "raise"
     /\ Last(client_outcomes).status_code # None)
    => \E i \in 1..Len(tresult.error) :
          tresult.error[i] = ToString(Last(client_outcomes).status_code[1])

\* ------------------------------------------------- the limiter, concurrent

\* C26: acquire() calls are serialized: at most one task is between its
\* refill and its final token write, also while it sleeps; no other call
\* refills or takes a token in that interval, every token handed out at
\* once was in the bucket, and the bucket never goes below empty.
C26_Serialized ==
    /\ Cardinality({t \in Tasks : pc[t] = "sleep"}) <= 1
    /\ \A t \in Tasks : pc[t] = "sleep" => lock = {t}
    /\ \A i \in 1..Len(log) : \A j \in (i + 1)..Len(log) :
          log[j].at >= log[i].at + log[i].wait
    /\ \A i \in 1..Len(log) : ~log[i].slept => log[i].tok >= One
    /\ tokens >= 0

\* one task sleeps inside acquire() and the other is held at the lock
C26_Witness ==
    /\ pc[1] = "sleep"
    /\ lock = {1}
    /\ pc[2] = "blocked"
    /\ waiters = <<2>>

\* C29: get_available_tokens() leaves tokens and last_update as they are and
\* returns min(burst_size, tokens + elapsed * requests_per_second) for the
\* time elapsed since last_update.
C29_ReadOnlyTokens ==
    [][available' # available
       => /\ tokens' = tokens
          /\ last_update' = last_update
          /\ available' =
                Some(Min(burst_size * One,
                         tokens + (now - last_update) * requests_per_second))
      ]_vars

\* a read some time after the last refill returned more than the stored
\* tokens and stored nothing
C29_Witness ==
    /\ available # None
    /\ last_update < now
    /\ tokens < available[1]
    /\ available[1] =
          Min(burst_size * One,
              tokens + (now - last_update) * requests_per_second)

\* C28: with finitely many callers and a fair (first come, first served)
\* lock, every acquire() call eventually returns.
C28_AcquireReturns ==
    \A t \in Tasks : (pc[t] # "idle") ~> (pc[t] = "idle")

\* a call slept, a call that had queued at the lock ran as soon as the
\* sleeper let go, and every call has returned
C28_Witness ==
    /\ \E i \in 1..(Len(log) - 1) :
          /\ log[i].slept
          /\ log[i].wait > 0
          /\ log[i + 1].at = log[i].at + log[i].wait
    /\ Len(grants) = Len(log)
    /\ waiters = <<>>
    /\ \A t \in Tasks : pc[t] = "idle"

\* C27: the executor's sleeps (Retry-After and backoff) are taken outside
\* the limiter: the sleeping request neither holds nor waits for the
\* limiter's lock, and falling asleep and waking up leave tokens,
\* last_update and the lock as they are, so that another task's acquire()
\* can complete meanwhile.
C27_SleepsOutsideLimiter ==
    /\ [](rpc = "sleep" => /\ pc[Caller] = "idle"
                           /\ Caller \notin lock
                           /\ \A i \in 1..Len(waiters) : waiters[i] # Caller)
    /\ [][((rpc = "sleep" \/ rpc' = "sleep") /\ rpc' # rpc)
          => /\ tokens' = tokens
             /\ last_update' = last_update
             /\ lock' = lock
             /\ waiters' = waiters]_vars

\* while the request sleeps after its second failed attempt, an acquire()
\* of the other task has returned, after a sleep of its own
C27_Witness ==
    /\ rpc = "sleep"
    /\ Len(sleeps) = 2
    /\ sleep_grants = 1
    /\ pc[Other] = "idle"
    /\ lock = {}
    /\ log[Len(log)].slept

\* ================================= claims: the limiter after a suspension

\* C33: immediately after an acquire() that had to suspend returns, the
\* bucket is empty as of that instant: get_available_tokens() reports 0,
\* and a further acquire() made with no additional time elapsed suspends
\* for a full 1 / requests_per_second.
C33_EmptyAfterSuspension ==
    /\ (/\ Len(log) > 0
        /\ Len(grants) = Len(log)
        /\ Last(log).slept
        /\ Last(grants) = now) => GetAvailableTokens = 0
    /\ \A i \in 1..(Len(log) - 1) :
          (log[i].slept /\ log[i + 1].at = grants[i]) =>
              /\ log[i + 1].slept
              /\ log[i + 1].wait * requests_per_second = One

\* ============================================ claims: the end of a request

\* C34: every _make_request call terminates after at most retries + 1 HTTP
\* requests, whatever the upstream responses (runs of 429 included) and
\* transport failures are; a 2xx response is the last thing the call
\* receives, and no sleep follows it.
C34_Terminates ==
    /\ [](/\ Len(received) <= retries + 1
          /\ \A i \in 1..Len(received) :
                (received[i].kind = "response"
                    /\ IsSuccess(received[i].status)) =>
                    /\ i = Len(received)
                    /\ Len(sleeps) <= i - 1
                    /\ Ended)
    /\ (rpc # "idle") ~> Ended

\* every attempt but the last got a 429 and was slept out, the last one a
\* 200, and the call returned
C34_Witness ==
    /\ rpc = "returned"
    /\ retries >= 2
    /\ Len(received) = retries + 1
    /\ \A i \in 1..retries : Is429(received[i])
    /\ received[retries + 1].status = 200
    /\ Len(sleeps) = retries

\* C35: when upstream answers 404 to the request of get_current_time_entry
\* (_make_request("GET", "/me/time_entries/current"), default retries), the
\* accessor yields the absent result after that single request: the 404
\* is not retried and no backoff sleep follows it.
C35_NotFoundNotRetried ==
    (/\ retries = DefaultRetries
     /\ Len(received) >= 1
     /\ received[1].kind = "response"
     /\ received[1].status = 404) =>
        /\ Len(received) = 1
        /\ sleeps = <<>>
        /\ rpc = "raised"
        /\ GetCurrentTimeEntry(outcome).kind = "return"
        /\ GetCurrentTimeEntry(outcome).value = "None"

\* =================================================== claims: the Reports API

\* C31: every Reports API request (get_team_time_entries, get_team_summary)
\* is preceded by one acquire() on the limiter that paces _make_request:
\* the method gets to its POST only by a step in which an acquire() on that
\* limiter returns, and every POST is sent from there; the request carries
\* the Authorization header of the generic executor.
C31_ReportsPacedAndAuthorized ==
    /\ [][(apc' = "post" /\ apc # "post")
            => /\ Len(grants') = Len(grants) + 1
               /\ acquires' = acquires + 1 \/ apc = "acquiring"]_vars
    /\ [][posts' # posts
            => /\ apc = "post"
               /\ Len(posts') = Len(posts) + 1
               /\ Last(posts').headers.Authorization
                     = ExecutorHeaders.Authorization]_vars

\* after its user lookup, made by _make_request with an acquire() of its
\* own, the method slept in its acquire() on the emptied bucket and then
\* sent its request
C31_Witness ==
    /\ Len(posts) = 1
    /\ arg = None
    /\ Len(executed) = 1
    /\ Len(received) >= 1
    /\ acquires = 2
    /\ Last(log).slept
    /\ Len(grants) = Len(log)

KeyConfigured == MCP_API_KEY # None /\ MCP_API_KEY[1] # <<>>

\* the path is /mcp or lies below it
UnderMcp(path) == path = McpPrefix \/ StartsWith(path, McpPrefix \o <<"/">>)

\* C32 as stated: when MCP_API_KEY is configured, a request to a path under
\* /mcp is forwarded to the next handler only if its Authorization header
\* is exactly "Bearer " followed by the key; any other such request is
\* rejected with 401 and the handler is not invoked.
C32_BearerRequired ==
    (KeyConfigured /\ request # None /\ UnderMcp(request[1].path)) =>
        IF request[1].Authorization = Some(BearerPrefix \o MCP_API_KEY[1])
        THEN response.kind = "forwarded" /\ forwarded = <<request[1]>>
        ELSE /\ response.kind = "raise"
             /\ response.status_code = 401
             /\ forwarded = <<>>

\* C32, amended: the same, provided PYTEST_CURRENT_TEST is unset or empty
\* in the server's environment.
C32_BearerRequiredOutsidePytest ==
    (/\ KeyConfigured
     /\ PYTEST_CURRENT_TEST \in {None, Some("")}
     /\ request # None
     /\ UnderMcp(request[1].path)) =>
        IF request[1].Authorization = Some(BearerPrefix \o MCP_API_KEY[1])
        THEN response.kind = "forwarded" /\ forwarded = <<request[1]>>
        ELSE /\ response.kind = "raise"
             /\ response.status_code = 401
             /\ forwarded = <<>>

\* outside pytest, a request below /mcp with the Bearer prefix and another
\* key of the same length was rejected and not forwarded
C32_Witness ==
    /\ KeyConfigured
    /\ PYTEST_CURRENT_TEST = None
    /\ request # None
    /\ request[1].path = McpPrefix \o <<"/", "x">>
    /\ request[1].Authorization # None
    /\ StartsWith(request[1].Authorization[1], BearerPrefix)
    /\ Len(request[1].Authorization[1]) = 7 + Len(MCP_API_KEY[1])
    /\ response = HTTPException(401, "Invalid API key")
    /\ forwarded = <<>>

\* ========================================== claims: the aggregating tools

\* C39: list_time_entries returns, in upstream order, exactly the fetched
\* entries that satisfy every supplied filter (project_id equal, billable
\* equal, description containing the text whatever the case of the
\* letters); total_count is the number of entries returned and
\* total_duration the sum of their calculated_duration values.
Satisfying ==
    {i \in 1..Len(entries) :
        /\ filters[1].project_id # None
              => entries[i].project_id = filters[1].project_id
        /\ filters[1].billable # None
              => entries[i].billable = filters[1].billable[1]
        /\ filters[1].description_contains # None
              => LET text == filters[1].description_contains[1] IN
                 \E at \in 0..(Len(entries[i].description) - Len(text)) :
                    \A k \in 1..Len(text) :
                        LowerChar(entries[i].description[at + k])
                            = LowerChar(text[k])}

C39_ListedEntries ==
    report.kind = "list" =>
        /\ Len(report.time_entries) = Cardinality(Satisfying)
        /\ \A k \in 1..Len(report.time_entries) :
              \E i \in Satisfying :
                 /\ Cardinality({j \in Satisfying : j <= i}) = k
                 /\ report.time_entries[k].entry = entries[i]
        /\ report.total_count = Len(report.time_entries)
        /\ report.total_duration =
              SumDurations([k \in 1..Len(report.time_entries) |->
                  report.time_entries[k].calculated_duration])

\* of two fetched entries the first was left out and the second, a running
\* one, was returned for a text written in other case than its description
C39_Witness ==
    /\ report.kind = "list"
    /\ Len(entries) = 2
    /\ filters[1].description_contains = Some(<<"A", "B">>)
    /\ entries[1].description = <<"b", "a">>
    /\ entries[2].description = <<"A", "b">>
    /\ entries[2].duration = Some(0 - 1)
    /\ report.total_count = 1
    /\ report.time_entries[1].entry = entries[2]
    /\ report.total_duration = 1

\* C37: get_time_summary conserves time across its breakdowns:
\* billable_duration + non_billable_duration = total_duration; the
\* durations of project_breakdown sum to total_duration and its entry
\* counts to total_entries, and so for client_breakdown; each breakdown is
\* in non-increasing order of duration.
C37_TimeConserved ==
    report.kind = "summary" =>
        /\ report.billable_duration + report.non_billable_duration
              = report.total_duration
        /\ \A breakdown \in {report.project_breakdown,
                             report.client_breakdown} :
              /\ SumDurations([i \in 1..Len(breakdown) |->
                     breakdown[i].duration]) = report.total_duration
              /\ SumDurations([i \in 1..Len(breakdown) |->
                     breakdown[i].entries_count]) = report.total_entries
              /\ \A i \in 1..(Len(breakdown) - 1) :
                    breakdown[i].duration >= breakdown[i + 1].duration

\* two entries of different projects and clients, the shorter one first
\* and only the longer one billable: both breakdowns list the longer first
C37_Witness ==
    /\ report.kind = "summary"
    /\ report.total_entries = 2
    /\ report.total_duration = 3
    /\ report.billable_duration = 2
    /\ entries[1].duration = Some(0 - 1)
    /\ Len(report.project_breakdown) = 2
    /\ report.project_breakdown[1].name = ProjectName(entries[2], projects)
    /\ report.project_breakdown[1].duration = 2
    /\ Len(report.client_breakdown) = 2
    /\ report.client_breakdown[2].duration = 1

\* the entries of the summary as the filters select them
Summarized ==
    {i \in 1..Len(entries) :
        /\ filters[1].client_id # None
              => /\ entries[i].project_id # None
                 /\ MapGet(projects, entries[i].project_id[1]) # None
                 /\ MapGet(projects, entries[i].project_id[1])[1].client_id
                       = filters[1].client_id
        /\ filters[1].project_id # None
              => entries[i].project_id = filters[1].project_id
        /\ filters[1].billable # None
              => entries[i].billable = filters[1].billable[1]}

\* entry i has no project_id or one that get_projects did not return
ProjectMissing(i) ==
    \/ entries[i].project_id = None
    \/ MapGet(projects, entries[i].project_id[1]) = None

\* entry i has no project, or its project has no client_id or one that
\* get_clients did not return
ClientMissing(i) ==
    \/ ProjectMissing(i)
    \/ LET project == MapGet(projects, entries[i].project_id[1])[1] IN
       \/ project.client_id = None
       \/ MapGet(clients, project.client_id[1]) = None

\* the entries counted under `name` in a breakdown
CountedUnder(breakdown, name) ==
    SumDurations([i \in 1..Len(breakdown) |->
        IF breakdown[i].name = name THEN breakdown[i].entries_count ELSE 0])

\* every record has a name of its own, other than the two fallbacks
AllNamed(records) ==
    \A i \in 1..Len(records) :
        /\ records[i].name # None
        /\ records[i].name[1] \notin {"", "No Project", "No Client"}

\* C38: in get_time_summary an entry with an absent or unknown project_id
\* is counted under "No Project" and "No Client", and an entry whose
\* project has no client_id or an unknown one under "No Client"; a missing
\* reference raises nothing and, unless the client_id filter is set, does
\* not drop the entry from the totals.
C38_MissingReferencesCounted ==
    filters # None /\ report.kind # "list" =>
        /\ report.kind = "summary"
        /\ report.total_entries = Cardinality(Summarized)
        /\ CountedUnder(report.project_breakdown, "No Project")
              >= Cardinality({i \in Summarized : ProjectMissing(i)})
        /\ CountedUnder(report.client_breakdown, "No Client")
              >= Cardinality({i \in Summarized : ClientMissing(i)})
        /\ AllNamed(projects) =>
              CountedUnder(report.project_breakdown, "No Project")
                 = Cardinality({i \in Summarized : ProjectMissing(i)})
        /\ AllNamed(projects) /\ AllNamed(clients) =>
              CountedUnder(report.client_breakdown, "No Client")
                 = Cardinality({i \in Summarized : ClientMissing(i)})

\* with no client_id filter, an entry without project_id and an entry of a
\* project whose client is unknown are both in the totals: one under
\* "No Project", both under "No Client"
C38_Witness ==
    /\ report.kind = "summary"
    /\ filters[1].client_id = None
    /\ Len(entries) = 2
    /\ entries[1].project_id = None
    /\ entries[2].project_id = Some(2)
    /\ MapGet(projects, 2) # None
    /\ MapGet(projects, 2)[1].client_id = Some(2)
    /\ MapGet(clients, 2) = None
    /\ AllNamed(projects)
    /\ report.total_entries = 2
    /\ CountedUnder(report.project_breakdown, "No Project") = 1
    /\ CountedUnder(report.client_breakdown, "No Client") = 2

=============================================================================
